---- MODULE Spec2Model ----
(***************************************************************************)
(* A model of the next-state state container: the deep-merge utility, the  *)
(* batched store `create`, the documented `Store` with its                 *)
(* `MiddlewareStack`, the React `NextStateProvider`, the                   *)
(* `MiddlewareRegistry`, the single-file store, the `ListenerSet`, the     *)
(* selector hook, the migration code, `IndexedDBStorage`, `DevTools`, the  *)
(* `StorageManager`, `ServerState`, the optimistic server-state hook and    *)
(* `withRetry`.                                                            *)
(* Each implementation is a state machine of its own over the variables    *)
(* below and has a specification of its own.                               *)
(***************************************************************************)
EXTENDS Integers, Sequences, FiniteSets, TLC

VARIABLES
    heap,                  \* the JavaScript heap: a sequence of objects
    \* ---- deepMerge applied to drawn inputs
    mS, mU, mR1, mR2, mpc,
    \* ---- create (core/core.ts)
    state,                 \* let state
    pendingUpdates,        \* const pendingUpdates
    batchUpdateScheduled,  \* let batchUpdateScheduled
    flushQueued,           \* the callback of Promise.resolve().then is queued
    listeners,             \* ListenerSet.listeners: the WeakRefs, in insertion order
    cDelivered,            \* per listener, the states it was called with
    cUnhandled,            \* errors thrown out of the flush callback
    cTask,                 \* the updates setState was called with in the running task
    cLast,                 \* the last operation, as its caller saw it
    cSeq,                  \* the state had each update been applied as it was made
    \* ---- Store (tsup.config.ts)
    sState,                \* this.state
    sSubscribers,          \* this.subscribers, in insertion order
    sMiddleware,           \* this.middleware.middleware, as sortMiddleware left it
    sLast,                 \* the last operation, as its caller saw it
    \* ---- NextStateProvider (core/create-next-state.ts)
    pState,                \* the useState cell: state
    pQueue,                \* the updaters queued on the cell, not yet called
    pStorage,              \* what the storage holds under 'state'
    pLoad,                 \* loadState: not started, awaiting getItem, done
    pMiddleware,           \* the middleware prop
    pInvoked,              \* per middleware, how often it was called
    pConsole,              \* lines written by console.error
    pCalls,                \* setState calls made
    pAsync,                \* setStateAsync calls whose promise has not settled
    pStarted,              \* setStateAsync calls made with a function, and whether
                           \* all of them were made before any of them settled
    pLast,                 \* the last operation and, for a render, its steps
    \* ---- MiddlewareRegistry (middleware-registry.ts)
    rVariant,              \* which of the two definitions of the class
    rMiddleware,           \* this.middleware
    rNextId,               \* the ids add has handed out
    rIter,                 \* the pass of execute under way: its array, index and await
    rPass,                 \* the pass: what it ran, what failed, how it ended
    \* ---- create of the single-file store (unnamed/part_009)
    vState,                \* let state
    vListeners,            \* const listeners, a Set, in insertion order
    vKinds,                \* per listener, what its body does when it is called
    vLog,                  \* per listener, the calls made to it
    vCommits,              \* how many times state was assigned
    vDisposed,             \* the listeners whose disposer was called last
    vStorage,              \* localStorage under config.key
    vQuota,                \* the storage is full: localStorage.setItem throws
    vLast,                 \* the last operation, as its caller saw it
    \* ---- ListenerSet (utils.ts), called directly
    lsListeners,           \* this.listeners: the WeakRefs, each named by its target
    lsHeld,                \* per callback: reachable, unreachable, or collected
    lsSwept,               \* per callback, what it was when cleanup last ran
    lsLast,                \* the last operation, as its caller saw it
    \* ---- useSelector's listener (core/core.ts) and createSelector (utils.ts)
    uState,                \* the state the listener was last called with
    uSelector,             \* the selector: the path of the slice it returns
    uEquality,             \* equalityFn / equals
    uPrevValue,            \* prevValue.current
    uFired,                \* how often setValue was called
    uMemo,                 \* prevResult and prevState of the memoized selector
    uCalls,                \* how often the listener was called
    uLast,                 \* the last call, as the component saw it
    \* ---- the migration code (unnamed/part_008, unnamed/part_006, tsup.config.ts)
    gVariant,              \* which implementation
    gVersion,              \* the configured current version
    gSupplied,             \* the versions the caller supplied a migration for
    gMigrations,           \* the migrations held, by version, in the order supplied
    gLast,                 \* the last operation, as its caller saw it
    \* ---- IndexedDBStorage (unnamed/part_006)
    iOnError,              \* config.onError is given
    iVersion,              \* config.version
    iStored,               \* the version of the record in the database
    iDb,                   \* this.db is set
    iPhase,                \* what the running get() waits for
    iPromise,              \* the promise the last get() returned
    iAttempt,              \* the attempt withRetry is at
    iGets,                 \* get() calls so far
    iOnErrorCalls,         \* calls of config.onError
    iUncaught,             \* exceptions thrown out of event handlers
    iLast,                 \* the last step
    \* ---- DevTools (dev-tools/index.ts)
    dEnabled,              \* this.enabled
    dListening,            \* a callback is subscribed through the DevTools API
    dStore,                \* the state of the store that created the DevTools
    dActions,              \* this.actions, by type
    dSnapshots,            \* this.snapshots, by state
    dBatch,                \* create's batch: pendingUpdates, the flags, the flush's closure
    dLast,                 \* the last call and what the callback was given in it
    \* ---- StorageManager (unnamed/part_008)
    tPending,              \* this.pendingOperations
    tAdapter,              \* what the adapter holds, by key
    tRef,                  \* what it would hold had every operation been applied as issued
    tTimer,                \* this.batchTimeout is running
    tRetryTimer,           \* a retry of the flush is scheduled
    tRetryCount,           \* this.retryCount
    tFlush,                \* the flush under way
    tIssued,               \* operations issued so far
    tFailed,               \* the adapter has rejected an operation
    tUnhandled,            \* rejected flushes nobody awaited
    tLast,                 \* the last step
    \* ---- ServerState (unnamed/part_015)
    zServer,               \* SERVER_STATE's entry for the key
    zCache,                \* this.cache's entry for the key
    zInflight,             \* the set calls suspended at their await
    zSubscribed,           \* a callback is subscribed
    zSets,                 \* set calls started so far
    zLast,                 \* the last step
    \* ---- useOptimisticServerState (hooks/hooks.ts)
    oState,                \* the hook's state
    oPending,              \* pendingUpdates.current
    oInflight,             \* the serverState.set calls suspended at their await
    oQueue,                \* the queued continuations
    oServer,               \* the server's state for the key
    oMounted,              \* mounted.current
    oCount,                \* updateState calls so far
    oLast,                 \* the last step
    \* ---- IndexedDBStorage.withRetry (unnamed/part_006)
    wConfig,               \* config.retry?.attempts
    wAttempt,              \* the attempt parameter of the running call
    wPhase,                \* idle, awaiting the operation, in the delay, resolved, rejected
    wInvocations,          \* invocations of the operation so far
    wErrors,               \* what the invocations rejected with
    wResult                \* what withRetry rejected with

mergeVars == <<mS, mU, mR1, mR2, mpc>>
createVars == <<state, pendingUpdates, batchUpdateScheduled, flushQueued, listeners,
                cDelivered, cUnhandled, cTask, cLast, cSeq>>
storeVars == <<sState, sSubscribers, sMiddleware, sLast>>
provVars == <<pState, pQueue, pStorage, pLoad, pMiddleware, pInvoked, pConsole, pCalls,
              pAsync, pStarted, pLast>>
regVars == <<rVariant, rMiddleware, rNextId, rIter, rPass>>
retryVars == <<wConfig, wAttempt, wPhase, wInvocations, wErrors, wResult>>
optVars == <<oState, oPending, oInflight, oQueue, oServer, oMounted, oCount, oLast>>
ssVars == <<zServer, zCache, zInflight, zSubscribed, zSets, zLast>>
smVars == <<tPending, tAdapter, tRef, tTimer, tRetryTimer, tRetryCount, tFlush, tIssued,
           tFailed, tUnhandled, tLast>>
devVars == <<dEnabled, dListening, dStore, dActions, dSnapshots, dBatch, dLast>>
idbVars == <<iOnError, iVersion, iStored, iDb, iPhase, iPromise, iAttempt, iGets,
            iOnErrorCalls, iUncaught, iLast>>
migVars == <<gVariant, gVersion, gSupplied, gMigrations, gLast>>
selVars == <<uState, uSelector, uEquality, uPrevValue, uFired, uMemo, uCalls, uLast>>
lsVars == <<lsListeners, lsHeld, lsSwept, lsLast>>
simpleVars == <<vState, vListeners, vKinds, vLog, vCommits, vDisposed, vStorage, vQuota,
                vLast>>
vars == <<heap, mergeVars, createVars, storeVars, provVars, regVars, simpleVars,
         lsVars, selVars, migVars, idbVars, devVars, smVars, ssVars,
         optVars, retryVars>>

(***************************************************************************)
(* JavaScript values.  A value on the heap is a number, null, undefined, a *)
(* function or a reference to an object; an object is a map from property  *)
(* names to values and is an array or a plain object.                      *)
(***************************************************************************)
Num(i) == [k |-> "num", n |-> i]
Null == [k |-> "null", n |-> 0]
Undefined == [k |-> "undef", n |-> 0]
Ref(a) == [k |-> "ref", n |-> a]

\* !!v
Truthy(v) == v.k = "ref" \/ v.k = "fn" \/ (v.k = "num" /\ v.n # 0)

\* typeof v === 'object'  (true of null as well)
TypeofObject(v) == v.k \in {"ref", "null"}

\* the order in which property names are enumerated
AllKeys == <<"0", "1", "a", "b", "c", "d", "count", "user", "name", "theme">>

KeySeq(S) == SelectSeq(AllKeys, LAMBDA x : x \in S)

\* obj[key] = v
SetField(f, key, v) == [x \in (DOMAIN f) \cup {key} |-> IF x = key THEN v ELSE f[x]]

\* obj[key], undefined when the object has no such property or is no object
GetField(h, o, key) ==
    IF o.k = "ref" /\ key \in DOMAIN h[o.n].f THEN h[o.n].f[key] ELSE Undefined

\* Array.isArray(v)
IsArray(h, v) == v.k = "ref" /\ h[v.n].arr

(***************************************************************************)
(* Values as trees: what a value looks like to a reader who follows every  *)
(* reference.  Used to draw inputs and to compare results.                 *)
(***************************************************************************)
TNum(i) == [k |-> "num", n |-> i, f |-> <<>>]
TNull == [k |-> "null", n |-> 0, f |-> <<>>]
TUndefined == [k |-> "undef", n |-> 0, f |-> <<>>]
TObj(f) == [k |-> "obj", n |-> 0, f |-> f]
TArr(f) == [k |-> "arr", n |-> 0, f |-> f]
TFn(i) == [k |-> "fn", n |-> i, f |-> <<>>]

RECURSIVE Tree(_, _)
Tree(h, v) ==
    IF v.k = "ref"
    THEN [k |-> IF h[v.n].arr THEN "arr" ELSE "obj",
          n |-> 0,
          f |-> [key \in DOMAIN h[v.n].f |-> Tree(h, h[v.n].f[key])]]
    ELSE [k |-> v.k, n |-> v.n, f |-> <<>>]

\* an object literal written by a caller: the objects of tree t put on the heap
RECURSIVE Alloc(_, _), AllocFields(_, _, _, _)
Alloc(h, t) ==
    IF t.k \in {"obj", "arr"}
    THEN AllocFields(Append(h, [arr |-> t.k = "arr", f |-> <<>>]),
                     Len(h) + 1, t, KeySeq(DOMAIN t.f))
    ELSE [h |-> h, v |-> [k |-> t.k, n |-> t.n]]
AllocFields(h, a, t, ks) ==
    IF ks = <<>>
    THEN [h |-> h, v |-> Ref(a)]
    ELSE LET r == Alloc(h, t.f[Head(ks)])
         IN AllocFields([r.h EXCEPT ![a].f = SetField(@, Head(ks), r.v)],
                        a, t, Tail(ks))

(***************************************************************************)
(* deepMerge, first definition (utils.ts 47-63), the one `create` imports. *)
(***************************************************************************)
\* const result = { ...target }: a new plain object with target's own properties
SpreadCopy(h, target) ==
    [h |-> Append(h, [arr |-> FALSE,
                      f |-> IF target.k = "ref" THEN h[target.n].f ELSE <<>>]),
     a |-> Len(h) + 1]

RECURSIVE deepMerge(_, _, _), deepMergeKeys(_, _, _, _, _)
deepMerge(h, target, source) ==
    IF ~Truthy(source) \/ ~TypeofObject(source)
    THEN [h |-> h, v |-> source]
    ELSE IF ~Truthy(target) \/ ~TypeofObject(target)
    THEN [h |-> h, v |-> target]
    ELSE LET c == SpreadCopy(h, target)
         IN deepMergeKeys(c.h, c.a, target, source, KeySeq(DOMAIN h[source.n].f))
deepMergeKeys(h, a, target, source, ks) ==
    IF ks = <<>>
    THEN [h |-> h, v |-> Ref(a)]
    ELSE LET key == Head(ks)
             sourceValue == h[source.n].f[key]
             targetValue == GetField(h, target, key)
             r == IF Truthy(sourceValue) /\ TypeofObject(sourceValue) /\ Truthy(targetValue)
                  THEN deepMerge(h, targetValue, sourceValue)
                  ELSE [h |-> h, v |-> sourceValue]
         IN deepMergeKeys([r.h EXCEPT ![a].f = SetField(@, key, r.v)],
                          a, target, source, Tail(ks))

(***************************************************************************)
(* deepMerge, second definition (utils.ts 132-145).                        *)
(***************************************************************************)
RECURSIVE deepMerge2(_, _, _), deepMerge2Keys(_, _, _, _)
deepMerge2(h, target, source) ==
    LET c == SpreadCopy(h, target)
    IN deepMerge2Keys(c.h, c.a, source,
                      IF source.k = "ref" THEN KeySeq(DOMAIN h[source.n].f) ELSE <<>>)
deepMerge2Keys(h, a, source, ks) ==
    IF ks = <<>>
    THEN [h |-> h, v |-> Ref(a)]
    ELSE LET key == Head(ks)
             value == h[source.n].f[key]
             r == IF Truthy(value) /\ TypeofObject(value) /\ ~IsArray(h, value)
                  THEN deepMerge2(h, GetField(h, Ref(a), key), value)
                  ELSE [h |-> h, v |-> value]
         IN deepMerge2Keys([r.h EXCEPT ![a].f = SetField(@, key, r.v)],
                           a, source, Tail(ks))

(***************************************************************************)
(* deepMerge on drawn inputs: a state S and a partial update U.            *)
(***************************************************************************)
MaxLeaf == 2

MergeLeaves == {TNum(i) : i \in 0..1} \cup {TNull, TArr([x \in {"0"} |-> TNum(1)])}

PartialMaps(K, V) == UNION {[D -> V] : D \in SUBSET K}

MergeInner == {TObj(f) : f \in PartialMaps({"c", "d"}, {TNum(i) : i \in 1..MaxLeaf})}

MergeInputs == {TObj(f) : f \in PartialMaps({"a", "b"}, MergeLeaves \cup MergeInner)}

\* the tree of the result of one of the two definitions on trees s and u
MergeResult1(s, u) ==
    LET hs == Alloc(<<>>, s)
        hu == Alloc(hs.h, u)
        r == deepMerge(hu.h, hs.v, hu.v)
    IN Tree(r.h, r.v)
MergeResult2(s, u) ==
    LET hs == Alloc(<<>>, s)
        hu == Alloc(hs.h, u)
        r == deepMerge2(hu.h, hs.v, hu.v)
    IN Tree(r.h, r.v)

MergeInit ==
    /\ mS \in MergeInputs
    /\ mU \in MergeInputs
    /\ mR1 = TUndefined
    /\ mR2 = TUndefined
    /\ mpc = "input"

MergeIdle ==
    /\ mS = TUndefined
    /\ mU = TUndefined
    /\ mR1 = TUndefined
    /\ mR2 = TUndefined
    /\ mpc = "idle"

ApplyMerge ==
    /\ mpc = "input"
    /\ mR1' = MergeResult1(mS, mU)
    /\ mR2' = MergeResult2(mS, mU)
    /\ mpc' = "merged"
    /\ UNCHANGED <<heap, mS, mU, retryVars, optVars, ssVars, smVars, devVars, idbVars, migVars, selVars, lsVars, simpleVars, createVars, storeVars, provVars, regVars>>


(***************************************************************************)
(* C7  Merge correctness: deepMerge(S, U) keeps every key of S that is not *)
(* in U with its value unchanged, and for every key in both it recurses if *)
(* both values are plain objects and otherwise takes U's value (an array,  *)
(* null, or a plain object replacing a non-object included).               *)
(***************************************************************************)
RECURSIVE MergeAsSpecified(_, _, _)
MergeAsSpecified(s, u, r) ==
    /\ r.k = "obj"
    /\ \A key \in (DOMAIN s.f) \ (DOMAIN u.f) :
          key \in DOMAIN r.f /\ r.f[key] = s.f[key]
    /\ \A key \in (DOMAIN s.f) \cap (DOMAIN u.f) :
          /\ key \in DOMAIN r.f
          /\ IF s.f[key].k = "obj" /\ u.f[key].k = "obj"
             THEN MergeAsSpecified(s.f[key], u.f[key], r.f[key])
             ELSE r.f[key] = u.f[key]

C7_MergeCorrect == mpc = "merged" => MergeAsSpecified(mS, mU, mR1)

(***************************************************************************)
(* create (core/core.ts) with ListenerSet (utils.ts 65-130).               *)
(***************************************************************************)
MaxCalls == 3
MaxSubs == 2

ListenerIds == {"L1", "L2"}

\* config.initialState
InitialTree ==
    TObj([count |-> TNum(0), user |-> TObj([name |-> TNum(1), theme |-> TNum(1)])])

\* prev => ({ count: prev.count + 1 }), a function passed as the update
Increment == TFn(1)

\* the updates callers pass to setState
UpdateTrees ==
    {TObj([count |-> TNum(1)]),
     TObj([count |-> TNum(2)]),
     TObj([user |-> TObj([theme |-> TNum(2)])]),
     TObj([user |-> TObj([name |-> TNum(2)])]),
     TObj([count |-> TNum(3), user |-> TObj([theme |-> TNum(3)])]),
     Increment}

\* what a caller can pass against the type of setState: null and undefined
InvalidUpdates == {TNull, TUndefined}

IsInvalid(v) == v.k \in {"null", "undef"}

\* the members of the object createPerformanceMonitor returns
MonitorMembers == {"updates", "listeners", "lastUpdateTime", "updateTimes", "track", "getMetrics"}

\* performance.now(): performance is the monitor, not the global; calling a
\* member it does not have throws a TypeError
PerformanceNowThrows == "now" \notin MonitorMembers

\* pendingUpdates.reduce((acc, update) => deepMerge(acc, update), state)
RECURSIVE ReducePending(_, _, _)
ReducePending(h, acc, q) ==
    IF q = <<>>
    THEN [h |-> h, v |-> acc]
    ELSE LET r == deepMerge(h, acc, Head(q))
         IN ReducePending(r.h, r.v, Tail(q))

\* ListenerSet.notify: every listener whose WeakRef is live is called with the
\* state, an exception of a listener is caught and logged
NotifyAll(del, ls, v) ==
    [l \in ListenerIds |->
        del[l] \o [i \in 1..Len(SelectSeq(ls, LAMBDA x : x = l)) |-> v]]

\* ListenerSet.delete: the first WeakRef whose target is the listener is removed
RECURSIVE DeleteFirst(_, _)
DeleteFirst(ls, l) ==
    IF ls = <<>> THEN <<>>
    ELSE IF Head(ls) = l THEN Tail(ls)
    ELSE <<Head(ls)>> \o DeleteFirst(Tail(ls), l)

NoOp == [op |-> "none", threw |-> FALSE, update |-> Undefined,
         before |-> Undefined, beforeTree |-> TUndefined, batch |-> <<>>,
         delivered |-> [l \in ListenerIds |-> <<>>], subs |-> <<>>]

CreateInit ==
    LET a == Alloc(<<>>, InitialTree)
    IN /\ heap = a.h
       /\ state = a.v
       /\ pendingUpdates = <<>>
       /\ batchUpdateScheduled = FALSE
       /\ flushQueued = FALSE
       /\ listeners = <<>>
       /\ cDelivered = [l \in ListenerIds |-> <<>>]
       /\ cUnhandled = 0
       /\ cTask = <<>>
       /\ cLast = NoOp
       /\ cSeq = a.v

CreateIdle ==
    /\ state = Undefined
    /\ pendingUpdates = <<>>
    /\ batchUpdateScheduled = FALSE
    /\ flushQueued = FALSE
    /\ listeners = <<>>
    /\ cDelivered = [l \in ListenerIds |-> <<>>]
    /\ cUnhandled = 0
    /\ cTask = <<>>
    /\ cLast = NoOp
    /\ cSeq = Undefined

\* useSelector's effect: listeners.add(listener)
Subscribe(l) ==
    /\ Len(listeners) < MaxSubs
    /\ listeners' = Append(listeners, l)
    /\ cLast' = [NoOp EXCEPT !.op = "subscribe"]
    /\ UNCHANGED <<heap, mergeVars, retryVars, optVars, ssVars, smVars, devVars, idbVars, migVars, selVars, lsVars, simpleVars, storeVars, provVars, regVars, state, pendingUpdates, batchUpdateScheduled,
                   flushQueued, cDelivered, cUnhandled, cTask, cSeq>>

\* the effect's cleanup: listeners.delete(listener)
Unsubscribe(l) ==
    /\ \E i \in 1..Len(listeners) : listeners[i] = l
    /\ listeners' = DeleteFirst(listeners, l)
    /\ cLast' = [NoOp EXCEPT !.op = "unsubscribe"]
    /\ UNCHANGED <<heap, mergeVars, retryVars, optVars, ssVars, smVars, devVars, idbVars, migVars, selVars, lsVars, simpleVars, storeVars, provVars, regVars, state, pendingUpdates, batchUpdateScheduled,
                   flushQueued, cDelivered, cUnhandled, cTask, cSeq>>

\* setState(update): the update is queued; the first call since the last flush
\* sets the flag and reads performance.now() before it schedules the flush
SetState(t) ==
    /\ Len(pendingUpdates) < MaxCalls
    /\ LET a == Alloc(heap, t)
           g == deepMerge(a.h, cSeq, a.v)
           throws == ~batchUpdateScheduled /\ PerformanceNowThrows
       IN /\ heap' = g.h
          /\ cSeq' = g.v
          /\ pendingUpdates' = Append(pendingUpdates, a.v)
          /\ batchUpdateScheduled' = TRUE
          /\ flushQueued' = (flushQueued \/ (~batchUpdateScheduled /\ ~PerformanceNowThrows))
          /\ cTask' = Append(cTask, [update |-> a.v, threw |-> throws])
          /\ cLast' = [NoOp EXCEPT !.op = "setState", !.threw = throws, !.update = a.v,
                                   !.before = state, !.beforeTree = Tree(heap, state)]
    /\ UNCHANGED <<mergeVars, retryVars, optVars, ssVars, smVars, devVars, idbVars, migVars, selVars, lsVars, simpleVars, storeVars, provVars, regVars, state, listeners, cDelivered, cUnhandled>>

\* The running task ends and the microtask queue is drained: the flush callback,
\* if it was queued, reduces the pending updates into the state, notifies the
\* listeners (ListenerSet.notify reads performance.now() first), and in its
\* finally block clears the flag and the queue.
EndTask ==
    /\ cTask # <<>>
    /\ IF flushQueued
       THEN LET r == ReducePending(heap, state, pendingUpdates)
            IN /\ heap' = r.h
               /\ state' = r.v
               /\ IF PerformanceNowThrows
                  THEN cDelivered' = cDelivered /\ cUnhandled' = cUnhandled + 1
                  ELSE cDelivered' = NotifyAll(cDelivered, listeners, r.v)
                       /\ cUnhandled' = cUnhandled
               /\ batchUpdateScheduled' = FALSE
               /\ pendingUpdates' = <<>>
               /\ flushQueued' = FALSE
       ELSE UNCHANGED <<heap, state, cDelivered, cUnhandled, batchUpdateScheduled,
                        pendingUpdates, flushQueued>>
    /\ cTask' = <<>>
    /\ cLast' = [NoOp EXCEPT !.op = "endTask", !.batch = cTask, !.subs = listeners,
                             !.before = state, !.beforeTree = Tree(heap, state),
                             !.delivered = [l \in ListenerIds |->
                                 SubSeq(cDelivered'[l], Len(cDelivered[l]) + 1,
                                        Len(cDelivered'[l]))]]
    /\ UNCHANGED <<mergeVars, retryVars, optVars, ssVars, smVars, devVars, idbVars, migVars, selVars, lsVars, simpleVars, storeVars, provVars, regVars, listeners, cSeq>>

\* The page is reloaded after a setState call and create(config) is called
\* again: everything in memory is gone, state is config.initialState again, and
\* nothing reads the storage (storage.load has no caller).  The operation
\* records the update of the last setState call and whether that call threw.
Reload ==
    /\ \/ cLast.op = "setState"
       \/ cLast.op = "endTask" /\ cLast.batch # <<>>
    /\ LET last == IF cLast.op = "setState"
                   THEN [update |-> cLast.update, threw |-> cLast.threw]
                   ELSE cLast.batch[Len(cLast.batch)]
           a == Alloc(<<>>, InitialTree)
       IN /\ heap' = a.h
          /\ state' = a.v
          /\ cSeq' = a.v
          /\ cLast' = [NoOp EXCEPT !.op = "reload", !.threw = last.threw,
                                   !.beforeTree = Tree(heap, last.update)]
    /\ pendingUpdates' = <<>>
    /\ batchUpdateScheduled' = FALSE
    /\ flushQueued' = FALSE
    /\ listeners' = <<>>
    /\ cTask' = <<>>
    /\ UNCHANGED <<mergeVars, retryVars, optVars, ssVars, smVars, devVars, idbVars, migVars, selVars, lsVars, simpleVars, storeVars, provVars, regVars,
                   cDelivered, cUnhandled>>

NextCreate ==
    \/ \E l \in ListenerIds : Subscribe(l)
    \/ \E l \in ListenerIds : Unsubscribe(l)
    \/ \E t \in UpdateTrees \cup InvalidUpdates : SetState(t)
    \/ EndTask
    \/ Reload

(***************************************************************************)
(* What a caller reads off a state: the leaves of a tree and their values. *)
(***************************************************************************)
RECURSIVE LeafPaths(_)
LeafPaths(t) ==
    IF t.k = "obj"
    THEN UNION {{<<key>> \o p : p \in LeafPaths(t.f[key])} : key \in DOMAIN t.f}
    ELSE {<<>>}

RECURSIVE At(_, _)
At(t, p) ==
    IF p = <<>> THEN t
    ELSE IF Head(p) \in DOMAIN t.f THEN At(t.f[Head(p)], Tail(p))
    ELSE TUndefined

\* state s reflects update u: every leaf u sets has u's value in s
Reflects(s, u) == \A p \in LeafPaths(u) : At(s, p) = At(u, p)

\* state s reflects the updates q made in this order: every leaf some update
\* sets has the value of the last update that sets it
ReflectsAll(s, q) ==
    \A i \in 1..Len(q) : \A p \in LeafPaths(q[i]) :
        (\A j \in (i + 1)..Len(q) : p \notin LeafPaths(q[j])) => At(s, p) = At(q[i], p)

(***************************************************************************)
(* C2  setState runs to completion: when a setState(u) call that did not   *)
(* fail returns, the transition is committed, so getState() called right   *)
(* after it returns a state that reflects u.                               *)
(***************************************************************************)
C2_CommittedOnReturn ==
    (cLast.op = "setState" /\ ~cLast.threw /\ ~IsInvalid(cLast.update))
        => Reflects(Tree(heap, state), Tree(heap, cLast.update))

(***************************************************************************)
(* C5  Batched notification: for the k setState calls of one task every    *)
(* subscriber is notified exactly once, with a state that reflects all k   *)
(* updates (each key has the value of the last call that set it).          *)
(***************************************************************************)
C5_NotifiedOncePerBatch ==
    (cLast.op = "endTask" /\ \A n \in 1..Len(cLast.batch) : ~cLast.batch[n].threw) =>
        \A i \in 1..Len(cLast.subs) :
            LET l == cLast.subs[i]
                got == cLast.delivered[l]
            IN /\ Len(got) = Len(SelectSeq(cLast.subs, LAMBDA x : x = l))
               /\ \A j \in 1..Len(got) :
                     ReflectsAll(Tree(heap, got[j]),
                                 [n \in 1..Len(cLast.batch) |->
                                     Tree(heap, cLast.batch[n].update)])

(***************************************************************************)
(* C6  The setState calls of one task are committed in call order: after   *)
(* the batch the state is the left fold of deepMerge over the updates in   *)
(* call order, so the last call that wrote a key wins.                     *)
(***************************************************************************)
C6_CommittedInCallOrder ==
    (cLast.op = "endTask" /\ \A n \in 1..Len(cLast.batch) : ~cLast.batch[n].threw)
        => Tree(heap, state) = Tree(heap, cSeq)

(***************************************************************************)
(* C3  Functional updates compose: starting from count 0, the N setState   *)
(* calls of one task, each passing a function that increments the count of *)
(* the state it is given, leave getState().count equal to N.               *)
(***************************************************************************)
C3_FunctionalUpdatesCompose ==
    (/\ cLast.op = "endTask"
     /\ \A n \in 1..Len(cLast.batch) :
           ~cLast.batch[n].threw /\ cLast.batch[n].update = [k |-> "fn", n |-> 1]
     /\ At(cLast.beforeTree, <<"count">>) = TNum(0))
        => At(Tree(heap, state), <<"count">>) = TNum(Len(cLast.batch))

(***************************************************************************)
(* C8  Immutability: the reference getState() returned before a setState   *)
(* differs from the one it returns after it, and no field of the earlier   *)
(* state object, at any depth, is changed by the setState.                 *)
(***************************************************************************)
C8_NewReferenceOldUnchanged ==
    (cLast.op = "setState" /\ ~cLast.threw /\ ~IsInvalid(cLast.update)) =>
        /\ state # cLast.before
        /\ Tree(heap, cLast.before) = cLast.beforeTree

(***************************************************************************)
(* C21  Persistence round-trip: after a setState(u) call that did not fail *)
(* on a persisting store, a fresh instance created over the same storage   *)
(* and key (a reload) has a state that reflects u.                         *)
(***************************************************************************)
C21_PersistenceRoundTrip ==
    (cLast.op = "reload" /\ ~cLast.threw /\ cLast.beforeTree.k = "obj")
        => Reflects(Tree(heap, state), cLast.beforeTree)

(***************************************************************************)
(* C28  An invalid update is rejected: setState(null) and                  *)
(* setState(undefined) throw to the caller, and the canonical state is     *)
(* never null or undefined.                                                *)
(***************************************************************************)
C28_InvalidUpdateRejected ==
    /\ (cLast.op = "setState" /\ IsInvalid(cLast.update)) => cLast.threw
    /\ cLast.op # "none" => ~IsInvalid(state)

(***************************************************************************)
(* C31  No lost update: every update passed to setState is merged by some  *)
(* later flush.  An update waits in pendingUpdates, and only the flush     *)
(* callback takes it out, so whenever an update is pending a flush is      *)
(* queued to run; and a flush that empties the queue leaves a state that   *)
(* reflects the updates it took out.                                       *)
(***************************************************************************)
C31_NoLostUpdate ==
    /\ pendingUpdates # <<>> => flushQueued
    /\ (cLast.op = "endTask" /\ cLast.batch # <<>> /\ pendingUpdates = <<>>) =>
           ReflectsAll(Tree(heap, state),
                       [n \in 1..Len(cLast.batch) |-> Tree(heap, cLast.batch[n].update)])

(***************************************************************************)
(* Store with its MiddlewareStack (tsup.config.ts 51-132).  The state is a *)
(* flat record of numbers, a middleware is what its hooks do when called.  *)
(***************************************************************************)
MaxCount == 3
MaxMiddleware == 2
MaxPriority == 1

SubscriberIds == {"S1", "S2"}

\* before: absent (no such property), pass (returns the update it is given),
\* rewrite (returns an update whose payload has count one higher), veto (returns
\* null) or throw; after: absent, ok or throw
BeforeKinds == {"absent", "pass", "rewrite", "veto", "throw"}
AfterKinds == {"absent", "ok", "throw"}

MiddlewareConfigs ==
    UNION {[1..n -> [priority : 0..MaxPriority, before : BeforeKinds, after : AfterKinds]]
              : n \in 0..MaxMiddleware}

\* the updates callers pass to Store.setState: an object or a function of the state
StoreUpdates ==
    {[fn |-> FALSE, v |-> [count |-> 1]],
     [fn |-> FALSE, v |-> [count |-> 2]],
     [fn |-> TRUE, v |-> <<>>]}

\* sortMiddleware: [...middleware].sort((a, b) => (b.priority || 0) - (a.priority || 0)),
\* a stable sort by descending priority
RECURSIVE sortMiddlewareTiesReversed(_, _)
sortMiddlewareTiesReversed(ms, p) ==
    IF p < 0 THEN <<>>
    ELSE LET tie == SelectSeq(ms, LAMBDA m : m.priority = p)
         IN [i \in 1..Len(tie) |-> tie[Len(tie) + 1 - i]]
                \o sortMiddlewareTiesReversed(ms, p - 1)

RECURSIVE sortMiddleware(_, _)
sortMiddleware(ms, p) ==
    IF p < 0 THEN <<>>
    ELSE SelectSeq(ms, LAMBDA m : m.priority = p) \o sortMiddleware(ms, p - 1)

\* computeNextState: typeof update === 'function' ? update(this.state) : update
computeNextState(st, u) == IF u.fn THEN [count |-> st.count + 1] ELSE u.v

\* Store.merge, whose body the source leaves out: the keys of the source
\* override those of the target
StoreMerge(target, source) ==
    [key \in (DOMAIN target) \cup (DOMAIN source) |->
        IF key \in DOMAIN source THEN source[key] ELSE target[key]]

\* MiddlewareStack.before: reduce((result, m) => result && m.before?.(result), update).
\* ran: the middlewares whose before-hook was called, in order; emptied: the
\* middleware whose before-hook returned null; live: the result is still truthy;
\* result: the payload of the result; inputs: the payload each hook was given
RECURSIVE MiddlewareBefore(_, _)
MiddlewareBefore(ms, acc) ==
    IF ms = <<>> \/ ~acc.live \/ acc.threw
    THEN acc
    ELSE LET m == Head(ms)
         IN MiddlewareBefore(Tail(ms),
              CASE m.before = "absent" -> [acc EXCEPT !.live = FALSE]
                [] m.before = "pass"   -> [acc EXCEPT !.ran = Append(@, m.id),
                                                      !.inputs = Append(@, acc.result)]
                [] m.before = "rewrite" -> [acc EXCEPT !.ran = Append(@, m.id),
                                                       !.inputs = Append(@, acc.result),
                                                       !.result = [count |-> @.count + 1]]
                [] m.before = "veto"   -> [acc EXCEPT !.ran = Append(@, m.id),
                                                      !.inputs = Append(@, acc.result),
                                                      !.live = FALSE, !.emptied = m.id]
                [] m.before = "throw"  -> [acc EXCEPT !.ran = Append(@, m.id),
                                                      !.inputs = Append(@, acc.result),
                                                      !.threw = TRUE])

\* MiddlewareStack.after: forEach(m => m.after?.(state)); an exception of a
\* hook ends the loop
RECURSIVE MiddlewareAfter(_, _)
MiddlewareAfter(ms, acc) ==
    IF ms = <<>> \/ acc.threw
    THEN acc
    ELSE LET m == Head(ms)
         IN MiddlewareAfter(Tail(ms),
              CASE m.after = "absent" -> acc
                [] m.after = "ok"     -> [acc EXCEPT !.ran = Append(@, m.id)]
                [] m.after = "throw"  -> [acc EXCEPT !.ran = Append(@, m.id),
                                                     !.threw = TRUE])

StoreNoOp == [op |-> "none", pre |-> <<>>, ranBefore |-> <<>>, emptied |-> 0,
              threw |-> "none", notified |-> <<>>, ranAfter |-> <<>>,
              update |-> <<>>, inputs |-> <<>>, live |-> FALSE, result |-> <<>>]

\* new Store({ initialState, options: { middleware } })
StoreInit ==
    /\ sState = [count |-> 0]
    /\ sSubscribers = <<>>
    /\ \E cfg \in MiddlewareConfigs :
          sMiddleware = sortMiddleware(
              [i \in 1..Len(cfg) |-> [id |-> i, priority |-> cfg[i].priority,
                                      before |-> cfg[i].before, after |-> cfg[i].after]],
              MaxPriority)
    /\ sLast = StoreNoOp

StoreIdle ==
    /\ sState = <<>>
    /\ sSubscribers = <<>>
    /\ sMiddleware = <<>>
    /\ sLast = StoreNoOp

\* subscribe: this.subscribers.add(subscriber), a Set in insertion order
StoreSubscribe(x) ==
    /\ sSubscribers' = IF \E i \in 1..Len(sSubscribers) : sSubscribers[i] = x
                       THEN sSubscribers ELSE Append(sSubscribers, x)
    /\ sLast' = [StoreNoOp EXCEPT !.op = "subscribe"]
    /\ UNCHANGED <<heap, mergeVars, retryVars, optVars, ssVars, smVars, devVars, idbVars, migVars, selVars, lsVars, simpleVars, createVars, provVars, regVars, sState, sMiddleware>>

\* the function subscribe returned: this.subscribers.delete(subscriber)
StoreUnsubscribe(x) ==
    /\ \E i \in 1..Len(sSubscribers) : sSubscribers[i] = x
    /\ sSubscribers' = SelectSeq(sSubscribers, LAMBDA y : y # x)
    /\ sLast' = [StoreNoOp EXCEPT !.op = "unsubscribe"]
    /\ UNCHANGED <<heap, mergeVars, retryVars, optVars, ssVars, smVars, devVars, idbVars, migVars, selVars, lsVars, simpleVars, createVars, provVars, regVars, sState, sMiddleware>>

\* Store.setState: computeNextState, middleware.before (its result is not
\* used), merge, notify, middleware.after
StoreSetState(u) ==
    /\ u.fn => sState.count < MaxCount
    /\ LET nextState == computeNextState(sState, u)
           b == MiddlewareBefore(sMiddleware,
                    [ran |-> <<>>, live |-> TRUE, emptied |-> 0, threw |-> FALSE,
                     result |-> nextState, inputs |-> <<>>])
           merged == StoreMerge(sState, nextState)
           a == MiddlewareAfter(sMiddleware, [ran |-> <<>>, threw |-> FALSE])
       IN IF b.threw
          THEN /\ sState' = sState
               /\ sLast' = [StoreNoOp EXCEPT !.op = "setState", !.pre = sState,
                                             !.ranBefore = b.ran, !.threw = "before",
                                             !.update = nextState, !.inputs = b.inputs]
          ELSE /\ sState' = merged
               /\ sLast' = [StoreNoOp EXCEPT !.op = "setState", !.pre = sState,
                                             !.ranBefore = b.ran, !.emptied = b.emptied,
                                             !.notified = sSubscribers, !.ranAfter = a.ran,
                                             !.update = nextState, !.inputs = b.inputs,
                                             !.live = b.live, !.result = b.result,
                                             !.threw = IF a.threw THEN "after" ELSE "none"]
    /\ UNCHANGED <<heap, mergeVars, retryVars, optVars, ssVars, smVars, devVars, idbVars, migVars, selVars, lsVars, simpleVars, createVars, provVars, regVars, sSubscribers, sMiddleware>>

NextStore ==
    \/ \E x \in SubscriberIds : StoreSubscribe(x)
    \/ \E x \in SubscriberIds : StoreUnsubscribe(x)
    \/ \E u \in StoreUpdates : StoreSetState(u)

(***************************************************************************)
(* C1  Veto short-circuit: if a middleware's before-hook returns an empty  *)
(* (null) result for a setState call, then no later before-hook runs,      *)
(* nothing is committed, no subscriber is notified, and getState() after   *)
(* the call returns the state getState() returned before it.               *)
(***************************************************************************)
C1_VetoShortCircuit ==
    (sLast.op = "setState" /\ sLast.emptied # 0) =>
        /\ sLast.ranBefore[Len(sLast.ranBefore)] = sLast.emptied
        /\ sLast.notified = <<>>
        /\ sState = sLast.pre

\* what the before-hook of the middleware with this id returns for a payload
BeforeOutput(id, payload) ==
    LET m == SelectSeq(sMiddleware, LAMBDA x : x.id = id)[1]
    IN IF m.before = "rewrite" THEN [count |-> payload.count + 1] ELSE payload

(***************************************************************************)
(* C13  Chained before-phase: each middleware's before-hook receives the   *)
(* result returned by the previous one, not the original update, and the   *)
(* update that is committed is the output of the last middleware of the    *)
(* chain.                                                                  *)
(***************************************************************************)
C13_ChainedBefore ==
    (sLast.op = "setState" /\ sLast.threw # "before" /\ sLast.live
        /\ sLast.ranBefore # <<>>) =>
        /\ sLast.inputs[1] = sLast.update
        /\ \A i \in 2..Len(sLast.inputs) :
              sLast.inputs[i] = BeforeOutput(sLast.ranBefore[i - 1], sLast.inputs[i - 1])
        /\ sState = StoreMerge(sLast.pre, sLast.result)

(***************************************************************************)
(* NextStateProvider (core/create-next-state.ts 30-98).  The state lives   *)
(* in a useState cell: setStateInternal queues an updater, and React calls *)
(* the queued updaters in order, each with the state the one before it     *)
(* returned, when it next renders the provider.                            *)
(***************************************************************************)
MaxSetStates == 2

\* what a middleware (prev, nextUpdate) => ... does when it is called: returns,
\* throws, or returns a promise that rejects
MiddlewareKinds == {"ok", "throw", "reject"}

ProviderMiddlewares == UNION {[1..n -> MiddlewareKinds] : n \in 0..MaxMiddleware}

\* { ...config.initialState, ...initialData }
ProviderInitialState == [count |-> Num(0), theme |-> Num(1)]

\* the updates callers pass to setState: a partial state or a function of prev
ProviderUpdates ==
    {[fn |-> FALSE, v |-> [count |-> Num(1)]],
     [fn |-> FALSE, v |-> [theme |-> Num(2)]],
     [fn |-> FALSE, v |-> [theme |-> Undefined]],
     [fn |-> TRUE, v |-> <<>>]}

\* the updates callers pass to setStateAsync: a promise of a partial state or a
\* function of the state that returns one
ProviderAsyncUpdates ==
    {[fn |-> FALSE, v |-> [count |-> Num(1)]],
     [fn |-> TRUE, v |-> <<>>]}

\* what storage.getItem('state') resolves to: null, or the text setItem stored
StorageNull == [null |-> TRUE, text |-> <<>>]

\* JSON.stringify of a flat object: a property whose value is undefined is left out
JSONstringify(st) ==
    [null |-> FALSE,
     text |-> [key \in {x \in DOMAIN st : st[x] # Undefined} |-> st[key]]]

\* a text that is not JSON, such as 'invalid json{'
StorageCorrupt == [null |-> FALSE, text |-> <<>>, corrupt |-> TRUE]

\* JSON.parse(text) throws a SyntaxError
JSONparseThrows(j) == "corrupt" \in DOMAIN j

\* JSON.parse of a text JSON.stringify wrote
JSONparse(j) == j.text

\* { ...prev, ...nextUpdate }
Spread(prev, nextUpdate) ==
    [key \in (DOMAIN prev) \cup (DOMAIN nextUpdate) |->
        IF key \in DOMAIN nextUpdate THEN nextUpdate[key] ELSE prev[key]]

\* middleware.forEach((mw) => { try { mw(prev, nextUpdate) ... } catch { console.error } }),
\* from middleware i on: every middleware is called; one that throws is logged and
\* the loop goes on without it
RECURSIVE MiddlewareForEachNoCatch(_, _, _)
MiddlewareForEachNoCatch(ms, i, acc) ==
    IF i > Len(ms) \/ acc.threw
    THEN acc
    ELSE MiddlewareForEachNoCatch(ms, i + 1,
            [invoked |-> [acc.invoked EXCEPT ![i] = @ + 1],
             console |-> acc.console,
             threw |-> acc.threw \/ ms[i] = "throw"])

RECURSIVE MiddlewareForEach(_, _, _)
MiddlewareForEach(ms, i, acc) ==
    IF i > Len(ms)
    THEN acc
    ELSE MiddlewareForEach(ms, i + 1,
            [invoked |-> [acc.invoked EXCEPT ![i] = @ + 1],
             console |-> acc.console + (IF ms[i] = "ok" THEN 0 ELSE 1),
             threw |-> acc.threw \/ ms[i] = "throw"])

\* one queued updater called with prev.  The updater of setState computes the
\* next state, runs the middleware and persists; the updater of loadState
\* spreads the parsed text over prev
CallUpdater(ms, upd, acc) ==
    IF upd.kind = "load" /\ JSONparseThrows(upd.v)
    THEN [acc EXCEPT !.crashed = TRUE,
                     !.steps = Append(@, [kind |-> "load", pre |-> acc.state,
                                          post |-> acc.state,
                                          threw |-> TRUE, propagated |-> TRUE,
                                          asyncFn |-> FALSE, given |-> <<>>])]
    ELSE IF upd.kind = "load"
    THEN [acc EXCEPT !.state = Spread(acc.state, JSONparse(upd.v)),
                     !.steps = Append(@, [kind |-> "load", pre |-> acc.state,
                                          post |-> Spread(acc.state, JSONparse(upd.v)),
                                          threw |-> FALSE, propagated |-> FALSE,
                                          asyncFn |-> FALSE, given |-> <<>>])]
    ELSE LET prev == acc.state
             nextUpdate == IF upd.fn THEN [count |-> Num(prev.count.n + 1)] ELSE upd.v
             next == Spread(prev, nextUpdate)
             m == MiddlewareForEach(ms, 1, [invoked |-> acc.invoked,
                                            console |-> acc.console, threw |-> FALSE])
         IN [state |-> next,
             crashed |-> FALSE,
             rest |-> <<>>,
             invoked |-> m.invoked,
             console |-> m.console,
             storage |-> JSONstringify(next),
             steps |-> Append(acc.steps, [kind |-> "set", pre |-> prev, post |-> next,
                                          threw |-> m.threw, propagated |-> FALSE,
                                          asyncFn |-> upd.asyncFn, given |-> upd.given])]

\* React processing the update queue of the cell: an updater that throws
\* ends the render, the updaters behind it are not called
RECURSIVE ProcessQueue(_, _, _)
ProcessQueue(ms, q, acc) ==
    IF q = <<>> THEN acc
    ELSE IF CallUpdater(ms, Head(q), acc).crashed
    THEN [CallUpdater(ms, Head(q), acc) EXCEPT !.rest = q]
    ELSE ProcessQueue(ms, Tail(q), CallUpdater(ms, Head(q), acc))

ProviderNoOp == [op |-> "none", steps |-> <<>>]

\* loadState has not been called
ProviderNotLoaded ==
    [st |-> "unmounted", saved |-> StorageNull, loaded |-> FALSE, failed |-> "none",
     unhandled |-> FALSE]

\* the provider rendered for the first time, its effects not yet run
ProviderInit ==
    /\ pState = ProviderInitialState
    /\ pQueue = <<>>
    /\ pStorage \in {StorageNull, JSONstringify([count |-> Num(2), theme |-> Num(1)]),
                     StorageCorrupt}
    /\ pLoad = ProviderNotLoaded
    /\ pMiddleware \in ProviderMiddlewares
    /\ pInvoked = [i \in 1..Len(pMiddleware) |-> 0]
    /\ pConsole = 0
    /\ pCalls = 0
    /\ pAsync = <<>>
    /\ pStarted = [n |-> 0, concurrent |-> TRUE]
    /\ pLast = ProviderNoOp

ProviderIdle ==
    /\ pState = <<>>
    /\ pQueue = <<>>
    /\ pStorage = StorageNull
    /\ pLoad = ProviderNotLoaded
    /\ pMiddleware = <<>>
    /\ pInvoked = <<>>
    /\ pConsole = 0
    /\ pCalls = 0
    /\ pAsync = <<>>
    /\ pStarted = [n |-> 0, concurrent |-> TRUE]
    /\ pLast = ProviderNoOp

\* the mount effect: loadState() calls storage.getItem('state'), which reads
\* the storage, and awaits it
ProviderMount ==
    /\ pLoad.st = "unmounted"
    /\ pLoad' = [ProviderNotLoaded EXCEPT !.st = "reading", !.saved = pStorage]
    /\ pLast' = ProviderNoOp
    /\ UNCHANGED <<heap, mergeVars, retryVars, optVars, ssVars, smVars, devVars, idbVars, migVars, selVars, lsVars, simpleVars, createVars, storeVars, regVars, pState, pQueue, pStorage,
                   pMiddleware, pInvoked, pConsole, pCalls, pAsync, pStarted>>

\* loadState after the await: if (savedState) setStateInternal(prev => ...).
\* When the read failed, the promise of getItem is rejected, loadState throws at
\* the await, and the promise loadState() returned is rejected with no handler.
ProviderLoadState(readFails) ==
    /\ pLoad.st = "reading"
    /\ pLoad' = IF readFails
                THEN [ProviderNotLoaded EXCEPT !.st = "done", !.failed = "read",
                                               !.unhandled = TRUE]
                ELSE [ProviderNotLoaded EXCEPT
                         !.st = "done",
                         !.loaded = ~pLoad.saved.null,
                         !.failed = IF JSONparseThrows(pLoad.saved) THEN "corrupt" ELSE "none"]
    /\ pQueue' = IF readFails \/ pLoad.saved.null THEN pQueue
                 ELSE Append(pQueue, [kind |-> "load", fn |-> FALSE,
                                      v |-> pLoad.saved,
                                      asyncFn |-> FALSE, given |-> <<>>])
    /\ pLast' = ProviderNoOp
    /\ UNCHANGED <<heap, mergeVars, retryVars, optVars, ssVars, smVars, devVars, idbVars, migVars, selVars, lsVars, simpleVars, createVars, storeVars, regVars, pState, pStorage,
                   pMiddleware, pInvoked, pConsole, pCalls, pAsync, pStarted>>

\* setState(update): setStateInternal((prev) => { ... }) queues the updater and returns
ProviderSetState(u) ==
    /\ pLoad.st # "crashed"
    /\ pCalls + Len(pAsync) < MaxSetStates
    /\ pQueue' = Append(pQueue, [kind |-> "set", fn |-> u.fn, v |-> u.v,
                                 asyncFn |-> FALSE, given |-> <<>>])
    /\ pCalls' = pCalls + 1
    /\ pLast' = ProviderNoOp
    /\ UNCHANGED <<heap, mergeVars, retryVars, optVars, ssVars, smVars, devVars, idbVars, migVars, selVars, lsVars, simpleVars, createVars, storeVars, regVars, pState, pStorage, pLoad,
                   pMiddleware, pInvoked, pConsole, pAsync, pStarted>>

\* setStateAsync(update): a function is called at once with the state of the
\* render that made this setStateAsync, and the promise it returns is awaited; a
\* promise is awaited as it is
ProviderSetStateAsync(u) ==
    /\ pLoad.st # "crashed"
    /\ pCalls + Len(pAsync) < MaxSetStates
    /\ pAsync' = Append(pAsync,
                    IF u.fn
                    THEN [asyncFn |-> TRUE, given |-> pState,
                          v |-> [count |-> Num(pState.count.n + 1)]]
                    ELSE [asyncFn |-> FALSE, given |-> <<>>, v |-> u.v])
    /\ pStarted' = IF u.fn
                   THEN [n |-> pStarted.n + 1,
                         concurrent |-> pStarted.concurrent
                                           /\ pStarted.n = Len(SelectSeq(pAsync,
                                                               LAMBDA x : x.asyncFn))]
                   ELSE pStarted
    /\ pLast' = ProviderNoOp
    /\ UNCHANGED <<heap, mergeVars, retryVars, optVars, ssVars, smVars, devVars, idbVars, migVars, selVars, lsVars, simpleVars, createVars, storeVars, regVars, pState, pQueue, pStorage,
                   pLoad, pMiddleware, pInvoked, pConsole, pCalls>>

\* the awaited promise of the i-th pending setStateAsync resolves:
\* setState(resolvedUpdate)
ProviderAsyncResolve(i) ==
    /\ pLoad.st # "crashed"
    /\ i <= Len(pAsync)
    /\ pAsync' = SubSeq(pAsync, 1, i - 1) \o SubSeq(pAsync, i + 1, Len(pAsync))
    /\ pQueue' = Append(pQueue, [kind |-> "set", fn |-> FALSE, v |-> pAsync[i].v,
                                 asyncFn |-> pAsync[i].asyncFn, given |-> pAsync[i].given])
    /\ pCalls' = pCalls + 1
    /\ pLast' = ProviderNoOp
    /\ UNCHANGED <<heap, mergeVars, retryVars, optVars, ssVars, smVars, devVars, idbVars, migVars, selVars, lsVars, simpleVars, createVars, storeVars, regVars, pState, pStorage, pLoad,
                   pMiddleware, pInvoked, pConsole, pStarted>>

\* React renders the provider: the queued updaters are called in order.  An
\* updater that throws makes the render throw: nothing is committed, the
\* provider and everything under it is unmounted, and no updater is called again.
ProviderRender ==
    /\ pLoad.st # "crashed"
    /\ pQueue # <<>>
    /\ LET r == ProcessQueue(pMiddleware, pQueue,
                    [state |-> pState, crashed |-> FALSE, rest |-> <<>>,
                     invoked |-> pInvoked, console |-> pConsole,
                     storage |-> pStorage, steps |-> <<>>])
       IN /\ pState' = IF r.crashed THEN pState ELSE r.state
          /\ pInvoked' = r.invoked
          /\ pConsole' = r.console
          /\ pStorage' = r.storage
          /\ pQueue' = r.rest
          /\ pLoad' = IF r.crashed THEN [pLoad EXCEPT !.st = "crashed"] ELSE pLoad
          /\ pLast' = [op |-> "render", steps |-> r.steps]
    /\ UNCHANGED <<heap, mergeVars, retryVars, optVars, ssVars, smVars, devVars, idbVars, migVars, selVars, lsVars, simpleVars, createVars, storeVars, regVars,
                   pMiddleware, pCalls, pAsync, pStarted>>

NextProvider ==
    \/ ProviderMount
    \/ \E readFails \in BOOLEAN : ProviderLoadState(readFails)
    \/ \E u \in ProviderUpdates : ProviderSetState(u)
    \/ \E u \in ProviderAsyncUpdates : ProviderSetStateAsync(u)
    \/ \E i \in 1..MaxSetStates : ProviderAsyncResolve(i)
    \/ ProviderRender

\* the setState updaters among the updaters q
SetUpdaters(q) == SelectSeq(q, LAMBDA x : x.kind = "set")

C9_FatalTransitionError ==
    pLast.op = "render" =>
        \A n \in 1..Len(pLast.steps) :
            pLast.steps[n].threw =>
                pLast.steps[n].propagated /\ pLast.steps[n].post = pLast.steps[n].pre

(***************************************************************************)
(* C23  If the persisted payload cannot be parsed or the read of the       *)
(* storage fails, initialization falls back to the initial state and logs: *)
(* no error is thrown out of it, no rejected promise is left unhandled,    *)
(* and while no setState was made the state is the initial state.          *)
(***************************************************************************)
C23_CorruptFallsBack ==
    pLoad.failed # "none" =>
        /\ pLoad.st # "crashed"
        /\ ~pLoad.unhandled
        /\ pCalls = 0 => pState = ProviderInitialState
        /\ (pLoad.st = "done" /\ pQueue = <<>>) => pConsole > 0

(***************************************************************************)
(* C24  Every record the store writes to the storage is the full current   *)
(* state under a version tag, { version, data: state }: after a render     *)
(* that committed a setState the stored record has the two members version *)
(* and data, and data is the serialized state.                             *)
(***************************************************************************)
C24_RecordTaggedWithVersion ==
    (/\ pLast.op = "render"
     /\ pLoad.st # "crashed"
     /\ \E n \in 1..Len(pLast.steps) : pLast.steps[n].kind = "set") =>
        /\ DOMAIN pStorage.text = {"version", "data"}
        /\ pStorage.text.data = JSONstringify(pState).text

(***************************************************************************)
(* C32  Hydration does not clobber newer state: when the updater of a      *)
(* setState is applied before the updater of the asynchronous load, every  *)
(* key that setState wrote still has its value after the load has been     *)
(* applied, and the state in memory agrees with what is persisted.         *)
(***************************************************************************)
C32_HydrationKeepsNewer ==
    (pLast.op = "render" /\ pLoad.st # "crashed") =>
        \A i, j \in 1..Len(pLast.steps) :
            (/\ i < j
             /\ pLast.steps[i].kind = "set"
             /\ pLast.steps[j].kind = "load") =>
                /\ \A key \in DOMAIN pLast.steps[i].post :
                       (/\ pLast.steps[i].post[key] # pLast.steps[i].pre[key]
                        /\ \A n \in i..j :
                              pLast.steps[n].kind = "load"
                                 \/ pLast.steps[n].post[key] = pLast.steps[i].post[key])
                          => pLast.steps[j].post[key] = pLast.steps[i].post[key]
                /\ pStorage.text = JSONstringify(pState).text

(***************************************************************************)
(* C14  setStateAsync with a function update applies against the state     *)
(* that is canonical when its promise resolves: the function is given that *)
(* state, not a state captured when setStateAsync was made or called.      *)
(***************************************************************************)
C14_AsyncAppliesToCurrentState ==
    pLast.op = "render" =>
        \A n \in 1..Len(pLast.steps) :
            pLast.steps[n].asyncFn => pLast.steps[n].given = pLast.steps[n].pre

(***************************************************************************)
(* C15  N concurrently started asynchronous functional updates that each   *)
(* increment count from the state they are given leave count at the        *)
(* initial count plus N once all of them have resolved.                    *)
(***************************************************************************)
C15_NoLostAsyncIncrement ==
    (/\ pStarted.n > 0
     /\ pStarted.concurrent
     /\ pCalls = pStarted.n
     /\ pAsync = <<>>
     /\ pQueue = <<>>
     /\ ~pLoad.loaded) =>
        pState.count = Num(ProviderInitialState.count.n + pStarted.n)

(***************************************************************************)
(* MiddlewareRegistry: add, remove and the async execute of the first      *)
(* (middleware-registry.ts 3-31) and of the second (39-64) definition, and *)
(* register, unregister and executeOnStateChange of the third definition   *)
(* (hooks file, 256-316), which keeps a Map and sorts a copy of its values *)
(* for every pass.  A pass runs until it reaches an await, and is resumed  *)
(* when the awaited value has settled.                                     *)
(***************************************************************************)
MaxEntries == 2

\* what add is given.  First definition: onStateChange may be absent, return,
\* throw or return a promise that rejects, and the onError of one that fails
\* may be absent, return or throw.  Second definition: onStateChange is required, there is no onError,
\* and condition may be absent or return false.  Third definition: as the first.
RegistryConfigs(variant) ==
    IF variant \in {1, 3}
    THEN [priority : 0..MaxPriority, hook : {"ok", "absent"},
          onError : {"absent"}, condition : {"absent"}]
         \cup [priority : 0..MaxPriority, hook : {"throw"},
               onError : {"absent", "ok", "throw"}, condition : {"absent"}]
         \cup [priority : 0..MaxPriority, hook : {"reject"},
               onError : {"ok"}, condition : {"absent"}]
    ELSE [priority : 0..MaxPriority, hook : {"ok", "throw", "reject"},
          onError : {"absent"}, condition : {"absent", "false"}]

InSeq(x, q) == \E i \in 1..Len(q) : q[i] = x

NoEntry == [id |-> 0, priority |-> 0, hook |-> "absent", onError |-> "absent",
            condition |-> "absent"]

NoPass == [outcome |-> "none", start |-> <<>>, ran |-> <<>>, failed |-> <<>>,
           routed |-> <<>>, onErrorThrew |-> FALSE, logged |-> 0, mutated |-> FALSE]

NoIter == [active |-> FALSE, same |-> TRUE, arr |-> <<>>, idx |-> 0,
           m |-> NoEntry, settled |-> "ok"]

\* catch (error) { m.onError?.(error) } of the first definition; the second
\* definition has no catch and the error leaves execute; handleError of the
\* third definition calls m.onError in a try of its own and logs what it throws
CatchError(variant, m, pass) ==
    IF variant = 3
    THEN CASE m.onError = "absent" -> [pass EXCEPT !.failed = Append(@, m.id)]
           [] m.onError = "ok"     -> [pass EXCEPT !.failed = Append(@, m.id),
                                                   !.routed = Append(@, m.id)]
           [] m.onError = "throw"  -> [pass EXCEPT !.failed = Append(@, m.id),
                                                   !.routed = Append(@, m.id),
                                                   !.onErrorThrew = TRUE,
                                                   !.logged = @ + 1]
    ELSE IF variant = 1
    THEN CASE m.onError = "absent" -> [pass EXCEPT !.failed = Append(@, m.id)]
           [] m.onError = "ok"     -> [pass EXCEPT !.failed = Append(@, m.id),
                                                   !.routed = Append(@, m.id)]
           [] m.onError = "throw"  -> [pass EXCEPT !.failed = Append(@, m.id),
                                                   !.routed = Append(@, m.id),
                                                   !.onErrorThrew = TRUE,
                                                   !.outcome = "rejected"]
    ELSE [pass EXCEPT !.failed = Append(@, m.id), !.outcome = "rejected"]

\* for (const m of this.middleware) { ... } from the entry after index idx of
\* the array being iterated, up to the next await or the end of the pass
RECURSIVE RunToAwait(_, _, _)
RunToAwait(variant, it, pass) ==
    IF pass.outcome = "rejected"
    THEN [it |-> NoIter, pass |-> pass]
    ELSE IF it.idx >= Len(it.arr)
    THEN [it |-> NoIter, pass |-> [pass EXCEPT !.outcome = "resolved"]]
    ELSE LET m == it.arr[it.idx + 1]
             nx == [it EXCEPT !.idx = @ + 1, !.m = m]
         IN CASE variant = 2 /\ m.condition = "false" ->
                    RunToAwait(variant, nx, pass)
              [] m.hook = "absent" /\ ~(variant = 2 /\ m.condition = "false") ->
                    [it |-> [nx EXCEPT !.settled = "ok"], pass |-> pass]
              [] m.hook = "ok" /\ ~(variant = 2 /\ m.condition = "false") ->
                    [it |-> [nx EXCEPT !.settled = "ok"],
                     pass |-> [pass EXCEPT !.ran = Append(@, m.id)]]
              [] m.hook = "reject" /\ ~(variant = 2 /\ m.condition = "false") ->
                    [it |-> [nx EXCEPT !.settled = "reject"],
                     pass |-> [pass EXCEPT !.ran = Append(@, m.id)]]
              [] m.hook = "throw" /\ ~(variant = 2 /\ m.condition = "false") ->
                    RunToAwait(variant, nx,
                        CatchError(variant, m, [pass EXCEPT !.ran = Append(@, m.id)]))

\* new MiddlewareRegistry()
RegistryInit ==
    /\ rVariant \in {1, 2, 3}
    /\ rMiddleware = <<>>
    /\ rNextId = 1
    /\ rIter = NoIter
    /\ rPass = NoPass

RegistryIdle ==
    /\ rVariant = 0
    /\ rMiddleware = <<>>
    /\ rNextId = 1
    /\ rIter = NoIter
    /\ rPass = NoPass

\* add(config): push the entry with a new id, then sort by descending priority.
\* A pass that iterates this array sees the array change under it.
\* register(middleware) of the third definition: this.middlewares.set(id, middleware)
RegistryAdd(cfg) ==
    /\ cfg \in RegistryConfigs(rVariant)
    /\ rNextId <= MaxEntries
    /\ LET entry == [id |-> rNextId, priority |-> cfg.priority, hook |-> cfg.hook,
                     onError |-> cfg.onError, condition |-> cfg.condition]
           sorted == IF rVariant = 3 THEN Append(rMiddleware, entry)
                     ELSE sortMiddleware(Append(rMiddleware, entry), MaxPriority)
       IN /\ rMiddleware' = sorted
          /\ rIter' = IF rIter.active /\ rIter.same
                      THEN [rIter EXCEPT !.arr = sorted] ELSE rIter
    /\ rNextId' = rNextId + 1
    /\ rPass' = IF rIter.active THEN [rPass EXCEPT !.mutated = TRUE] ELSE NoPass
    /\ UNCHANGED <<heap, mergeVars, retryVars, optVars, ssVars, smVars, devVars, idbVars, migVars, selVars, lsVars, simpleVars, createVars, storeVars, provVars, rVariant>>

\* remove(id): this.middleware = this.middleware.filter(...), a new array; a
\* pass under way keeps iterating the old one.  rPass describes the pass under
\* way or the pass that ended last with no add or remove since.  unregister(id) of the third
\* definition: this.middlewares.delete(id)
RegistryRemove(id) ==
    /\ \E i \in 1..Len(rMiddleware) : rMiddleware[i].id = id
    /\ rMiddleware' = SelectSeq(rMiddleware, LAMBDA m : m.id # id)
    /\ rIter' = IF rIter.active THEN [rIter EXCEPT !.same = FALSE] ELSE rIter
    /\ rPass' = IF rIter.active THEN [rPass EXCEPT !.mutated = TRUE] ELSE NoPass
    /\ UNCHANGED <<heap, mergeVars, retryVars, optVars, ssVars, smVars, devVars, idbVars, migVars, selVars, lsVars, simpleVars, createVars, storeVars, provVars, rVariant, rNextId>>

\* execute(prev, next) is called: the pass runs up to its first await.  The
\* third definition iterates Array.from(this.middlewares.values()).sort(...)
RegistryExecute ==
    /\ ~rIter.active
    /\ LET arr == IF rVariant = 3 THEN sortMiddleware(rMiddleware, MaxPriority)
                  ELSE rMiddleware
           r == RunToAwait(rVariant,
                    [NoIter EXCEPT !.active = TRUE, !.arr = arr, !.same = rVariant # 3],
                    [NoPass EXCEPT !.outcome = "running", !.start = arr])
       IN rIter' = r.it /\ rPass' = r.pass
    /\ UNCHANGED <<heap, mergeVars, retryVars, optVars, ssVars, smVars, devVars, idbVars, migVars, selVars, lsVars, simpleVars, createVars, storeVars, provVars, rVariant,
                   rMiddleware, rNextId>>

\* the awaited value has settled: a rejection is thrown at the await, then the
\* pass runs on to its next await
RegistryResume ==
    /\ rIter.active
    /\ LET pass == IF rIter.settled = "reject"
                   THEN CatchError(rVariant, rIter.m, rPass) ELSE rPass
           r == RunToAwait(rVariant, rIter, pass)
       IN rIter' = r.it /\ rPass' = r.pass
    /\ UNCHANGED <<heap, mergeVars, retryVars, optVars, ssVars, smVars, devVars, idbVars, migVars, selVars, lsVars, simpleVars, createVars, storeVars, provVars, rVariant,
                   rMiddleware, rNextId>>

NextRegistry ==
    \/ \E cfg \in RegistryConfigs(1) \cup RegistryConfigs(2) : RegistryAdd(cfg)
    \/ \E id \in 1..MaxEntries : RegistryRemove(id)
    \/ RegistryExecute
    \/ RegistryResume

(***************************************************************************)
(* C10  After-phase error isolation: an exception thrown by a middleware's *)
(* onStateChange is caught for that middleware and routed to its onError;  *)
(* it is never propagated to the caller of execute and never prevents the  *)
(* onStateChange of the remaining middlewares from running.                *)
(***************************************************************************)
C10_AfterPhaseIsolated ==
    (/\ rPass.outcome \in {"resolved", "rejected"}
     /\ rPass.failed # <<>>
     /\ ~rPass.onErrorThrew
     /\ ~rPass.mutated) =>
        /\ rPass.outcome = "resolved"
        /\ \A i \in 1..Len(rPass.start) :
              LET m == rPass.start[i]
              IN /\ (m.hook # "absent" /\ m.condition # "false") => InSeq(m.id, rPass.ran)
                 /\ (InSeq(m.id, rPass.failed) /\ m.onError # "absent")
                        => InSeq(m.id, rPass.routed)

(***************************************************************************)
(* C11  An error thrown from a middleware's onError handler is swallowed:  *)
(* it does not propagate out of the pass, does not trigger another onError *)
(* invocation, and does not stop the remaining middlewares from running.   *)
(***************************************************************************)
C11_OnErrorThrowSwallowed ==
    (/\ rPass.outcome \in {"resolved", "rejected"}
     /\ rPass.onErrorThrew
     /\ ~rPass.mutated) =>
        /\ rPass.outcome = "resolved"
        /\ \A i \in 1..Len(rPass.start) :
              LET m == rPass.start[i]
              IN /\ m.hook # "absent" => InSeq(m.id, rPass.ran)
                 /\ Len(SelectSeq(rPass.routed, LAMBDA x : x = m.id)) <= 1

\* the entries of q are in descending priority, those of equal priority in the
\* order of their registration (ids are handed out in that order)
SortedStable(q) ==
    \A i, j \in 1..Len(q) :
        i < j => \/ q[i].priority > q[j].priority
                 \/ (q[i].priority = q[j].priority /\ q[i].id < q[j].id)

\* the ids of the entries of q whose onStateChange a pass calls, in the order of q
CalledIds(q) ==
    LET sel == SelectSeq(q, LAMBDA m : m.hook # "absent" /\ m.condition # "false")
    IN [i \in 1..Len(sel) |-> sel[i].id]

(***************************************************************************)
(* C36  A middleware added or removed while a pass is under way cannot     *)
(* corrupt the pass: when the pass has completed, every entry that was     *)
(* registered when it started, and has a hook to call, was invoked exactly *)
(* once in it.                                                             *)
(***************************************************************************)
C36_PassNotCorrupted ==
    rPass.outcome = "resolved" =>
        \A i \in 1..Len(rPass.start) :
            LET m == rPass.start[i]
            IN (m.hook # "absent" /\ m.condition # "false") =>
                  Cardinality({n \in 1..Len(rPass.ran) : rPass.ran[n] = m.id}) = 1

MaxCommits == 2

SimpleListenerIds == {"A", "B"}

\* what the body of a listener does with the state it is called with: nothing
\* more than read it, call setState({ count: 2 }) when it sees count 1, call
\* its own disposer, or call the disposer of the other listener
ListenerKinds == {"plain", "setter", "disposeSelf", "disposeOther"}

\* config.initialState
SimpleInitialState == [count |-> Num(0), theme |-> Num(1)]

\* the updates callers pass to setState
SimpleUpdates == {[count |-> Num(1)], [count |-> Num(3)], [theme |-> Num(2)]}

\* the update a "setter" listener passes to setState
SetterUpdate == [count |-> Num(2)]

OtherListener(l) == CHOOSE x \in SimpleListenerIds : x # l

\* listeners.delete(listener)
SetDelete(ls, l) == SelectSeq(ls, LAMBDA x : x # l)

\* listeners.add(listener): a Set holds a value once
SetAdd(ls, l) == IF InSeq(l, ls) THEN ls ELSE Append(ls, l)

\* storage.save(data) with config.persist: the text stored under config.key
StorageSave(data) ==
    [null |-> FALSE, text |-> [version |-> 1, data |-> JSONstringify(data).text]]

\* the running call: the closure's variables, and what was observed so far
RECURSIVE simpleSetState(_, _)
RECURSIVE listenersForEachSnapshot(_, _, _)
RECURSIVE listenersForEach(_, _, _)

\* the body of listener l, called with the state
ListenerBody(S, l) ==
    CASE vKinds[l] = "setter" /\ S.state.count = Num(1) ->
            simpleSetState(S, SetterUpdate)
      [] vKinds[l] = "disposeSelf" ->
            [S EXCEPT !.listeners = SetDelete(@, l), !.disposed = @ \cup {l}]
      [] vKinds[l] = "disposeOther" ->
            [S EXCEPT !.listeners = SetDelete(@, OtherListener(l)),
                      !.disposed = @ \cup {OtherListener(l)}]
      [] OTHER -> S

\* listener(state): the call reads the variable state when it is made
CallListener(S, l, trigger) ==
    ListenerBody(
        [S EXCEPT !.log[l] = Append(@, [trigger |-> trigger,
                                        carried |-> S.commits,
                                        value |-> S.state,
                                        disposed |-> l \in S.disposed])],
        l)

\* a forEach over a copy of the Set taken when the pass starts: an entry
\* deleted during the pass is still called
listenersForEachSnapshot(S, todo, trigger) ==
    IF todo = <<>>
    THEN S
    ELSE listenersForEachSnapshot(CallListener(S, Head(todo), trigger), Tail(todo), trigger)

\* listeners.forEach((listener) => listener(state)) over the entries that are
\* left to visit: an entry deleted before its turn is not visited
listenersForEach(S, todo, trigger) ==
    IF todo = <<>>
    THEN S
    ELSE IF ~InSeq(Head(todo), S.listeners)
    THEN listenersForEach(S, Tail(todo), trigger)
    ELSE listenersForEach(CallListener(S, Head(todo), trigger), Tail(todo), trigger)

\* setState: state = { ...state, ...update }; listeners.forEach(...); storage.save(state).
\* save is an async function: when localStorage.setItem throws, the promise save
\* returns is rejected, and setState has dropped that promise
simpleSetState(S, update) ==
    LET S1 == [S EXCEPT !.state = Spread(@, update),
                        !.commits = @ + 1,
                        !.made = Append(@, S.commits + 1)]
        S2 == listenersForEach(S1, S1.listeners, S1.commits)
    IN IF S.quota
       THEN [S2 EXCEPT !.unhandled = @ + 1]
       ELSE [S2 EXCEPT !.storage = StorageSave(S2.state)]

SimpleNoOp == [op |-> "none", made |-> <<>>, before |-> <<>>, quota |-> FALSE,
               unhandled |-> 0, kept |-> TRUE]

SimpleInit ==
    /\ vState = SimpleInitialState
    /\ vListeners = <<>>
    /\ vKinds \in [SimpleListenerIds -> ListenerKinds]
    /\ vLog = [l \in SimpleListenerIds |-> <<>>]
    /\ vCommits = 0
    /\ vDisposed = {}
    /\ vStorage = StorageNull
    /\ vQuota \in BOOLEAN
    /\ vLast = SimpleNoOp

SimpleIdle ==
    /\ vState = Undefined
    /\ vListeners = <<>>
    /\ vKinds = <<>>
    /\ vLog = <<>>
    /\ vCommits = 0
    /\ vDisposed = {}
    /\ vStorage = StorageNull
    /\ vQuota = FALSE
    /\ vLast = SimpleNoOp

\* subscribe(listener)
SimpleSubscribe(l) ==
    /\ vListeners' = SetAdd(vListeners, l)
    /\ vDisposed' = vDisposed \ {l}
    /\ vLast' = [SimpleNoOp EXCEPT !.op = "subscribe"]
    /\ UNCHANGED <<heap, mergeVars, retryVars, optVars, ssVars, smVars, devVars, idbVars, migVars, selVars, lsVars, createVars, storeVars, provVars, regVars,
                   vState, vKinds, vLog, vCommits, vStorage, vQuota>>

\* the disposer subscribe returned, called outside a notification pass
SimpleDispose(l) ==
    /\ InSeq(l, vListeners)
    /\ vListeners' = SetDelete(vListeners, l)
    /\ vDisposed' = vDisposed \cup {l}
    /\ vLast' = [SimpleNoOp EXCEPT !.op = "dispose"]
    /\ UNCHANGED <<heap, mergeVars, retryVars, optVars, ssVars, smVars, devVars, idbVars, migVars, selVars, lsVars, createVars, storeVars, provVars, regVars,
                   vState, vKinds, vLog, vCommits, vStorage, vQuota>>

\* setState(update), with every call its listeners make
SimpleSetState(u) ==
    /\ vCommits < MaxCommits
    /\ LET S0 == [state |-> vState, listeners |-> vListeners, log |-> vLog,
                  commits |-> vCommits, disposed |-> vDisposed,
                  storage |-> vStorage, made |-> <<>>, quota |-> vQuota, unhandled |-> 0]
           S == simpleSetState(S0, u)
       IN /\ vState' = S.state
          /\ vListeners' = S.listeners
          /\ vLog' = S.log
          /\ vCommits' = S.commits
          /\ vDisposed' = S.disposed
          /\ vStorage' = S.storage
          /\ vLast' = [op |-> "setState", made |-> S.made, before |-> vListeners,
                       quota |-> vQuota, unhandled |-> S.unhandled,
                       kept |-> S.state = simpleSetState([S0 EXCEPT !.quota = FALSE], u).state]
    /\ UNCHANGED <<heap, mergeVars, retryVars, optVars, ssVars, smVars, devVars, idbVars, migVars, selVars, lsVars, createVars, storeVars, provVars, regVars,
                   vKinds, vQuota>>

NextSimple ==
    \/ \E l \in SimpleListenerIds : SimpleSubscribe(l)
    \/ \E l \in SimpleListenerIds : SimpleDispose(l)
    \/ \E u \in SimpleUpdates : SimpleSetState(u)

(***************************************************************************)
(* C16  Monotonic delivery per subscriber: every notification carries the  *)
(* state as of the commit that triggered it, and no subscriber is notified *)
(* with a state older than one it was notified of before, also when a      *)
(* listener calls setState during a notification pass.                     *)
(***************************************************************************)
C16_MonotonicDelivery ==
    \A l \in DOMAIN vLog :
        /\ \A i \in 1..Len(vLog[l]) : vLog[l][i].carried = vLog[l][i].trigger
        /\ \A i, j \in 1..Len(vLog[l]) : i < j => vLog[l][i].carried <= vLog[l][j].carried

(***************************************************************************)
(* C22  A failing storage write is contained: setState does not throw      *)
(* because of it, no rejected promise is left unhandled, and the state is   *)
(* the one the call leaves when the write succeeds.                        *)
(***************************************************************************)
C22_WriteFailureContained ==
    (vLast.op = "setState" /\ vLast.quota) =>
        /\ vLast.unhandled = 0
        /\ vLast.kept

(***************************************************************************)
(* C17  subscribe returns a disposer: once the disposer of a listener has  *)
(* been called the listener is not invoked again, also when the disposer   *)
(* is called during a notification pass, and every listener that stays     *)
(* subscribed is notified of every commit made after that.                 *)
(***************************************************************************)
C17_DisposerStopsListener ==
    /\ \A l \in DOMAIN vLog : \A i \in 1..Len(vLog[l]) : ~vLog[l][i].disposed
    /\ vLast.op = "setState" =>
          \A c \in 1..Len(vLast.made) : \A l \in DOMAIN vLog :
              (InSeq(l, vLast.before) /\ InSeq(l, vListeners)) =>
                  \E i \in 1..Len(vLog[l]) : vLog[l][i].trigger = vLast.made[c]

\* a listener was disposed by the other one during the pass of the last commit,
\* before its turn: it was not called for that commit, the other one was
C17_Witness ==
    \E l \in DOMAIN vLog :
        /\ vLast.op = "setState"
        /\ vKinds[OtherListener(l)] = "disposeOther"
        /\ InSeq(l, vLast.before) /\ l \in vDisposed
        /\ vLast.before[1] = OtherListener(l)
        /\ InSeq(OtherListener(l), vListeners)
        /\ \E i \in 1..Len(vLog[OtherListener(l)]) : vLog[OtherListener(l)][i].trigger = vCommits
        /\ \A i \in 1..Len(vLog[l]) : vLog[l][i].trigger # vCommits

(***************************************************************************)
(* ListenerSet (utils.ts 65-130), called directly.  A WeakRef is named by  *)
(* the callback it was made for; the collector clears the WeakRefs of a    *)
(* callback some time after the callback has become unreachable.           *)
(***************************************************************************)
MaxRefs == 3

CallbackIds == {"F", "G"}

\* the value passed to notify as performance: the object
\* createPerformanceMonitor returns, or one that also has a member now
PerformanceArgs == {"monitor", "monitorWithNow"}

PerformanceMembers(p) ==
    IF p = "monitor" THEN MonitorMembers ELSE MonitorMembers \cup {"now"}

\* ref.deref(): the callback, or undefined once it was collected
Deref(ref, held) == IF held[ref] = "collected" THEN "undefined" ELSE ref

\* the loop of notify: every WeakRef is dereferenced in insertion order, and the
\* callback, if there is one, is called
RECURSIVE NotifyLoop(_, _)
NotifyLoop(refs, held) ==
    IF refs = <<>> THEN <<>>
    ELSE (IF Deref(Head(refs), held) # "undefined" THEN <<Head(refs)>> ELSE <<>>)
         \o NotifyLoop(Tail(refs), held)

\* a cleanup loop that stops after the first deletion, as the loop of delete does
RECURSIVE CleanupLoopFirst(_, _)
CleanupLoopFirst(refs, held) ==
    IF refs = <<>> THEN <<>>
    ELSE IF Deref(Head(refs), held) = "undefined" THEN Tail(refs)
    ELSE <<Head(refs)>> \o CleanupLoopFirst(Tail(refs), held)

\* the loop of cleanup: every WeakRef without a callback is deleted
CleanupLoop(refs, held) == SelectSeq(refs, LAMBDA ref : Deref(ref, held) # "undefined")

\* this.listeners.add(new WeakRef(listener)): the WeakRef is a new object
AddRef(refs, l) == Append(refs, l)

ListenerSetNoOp ==
    [op |-> "none", l |-> "undefined", threw |-> FALSE, invoked |-> <<>>, before |-> <<>>]

ListenerSetInit ==
    /\ lsListeners = <<>>
    /\ lsHeld = [l \in CallbackIds |-> "reachable"]
    /\ lsSwept = [l \in CallbackIds |-> "reachable"]
    /\ lsLast = ListenerSetNoOp

ListenerSetIdle ==
    /\ lsListeners = <<>>
    /\ lsHeld = <<>>
    /\ lsSwept = <<>>
    /\ lsLast = ListenerSetNoOp

\* add(listener)
ListenerSetAdd(l) ==
    /\ lsHeld[l] = "reachable"
    /\ Len(lsListeners) < MaxRefs
    /\ lsListeners' = AddRef(lsListeners, l)
    /\ lsLast' = [ListenerSetNoOp EXCEPT !.op = "add", !.l = l, !.before = lsListeners]
    /\ UNCHANGED <<heap, mergeVars, retryVars, optVars, ssVars, smVars, devVars, idbVars, migVars, selVars, createVars, storeVars, provVars, regVars, simpleVars,
                   lsHeld, lsSwept>>

\* delete(listener)
ListenerSetDelete(l) ==
    /\ lsHeld[l] = "reachable"
    /\ lsListeners' = DeleteFirst(lsListeners, l)
    /\ lsLast' = [ListenerSetNoOp EXCEPT !.op = "delete", !.l = l, !.before = lsListeners]
    /\ UNCHANGED <<heap, mergeVars, retryVars, optVars, ssVars, smVars, devVars, idbVars, migVars, selVars, createVars, storeVars, provVars, regVars, simpleVars,
                   lsHeld, lsSwept>>

\* notify(state, performance): performance.now() throws when there is no such
\* member, before any callback is called; otherwise the loop runs
ListenerSetNotify(p) ==
    /\ lsLast' = [ListenerSetNoOp EXCEPT
                     !.op = "notify",
                     !.threw = "now" \notin PerformanceMembers(p),
                     !.invoked = IF "now" \notin PerformanceMembers(p)
                                 THEN <<>>
                                 ELSE NotifyLoop(lsListeners, lsHeld),
                     !.before = lsListeners]
    /\ UNCHANGED <<heap, mergeVars, retryVars, optVars, ssVars, smVars, devVars, idbVars, migVars, selVars, createVars, storeVars, provVars, regVars, simpleVars,
                   lsListeners, lsHeld, lsSwept>>

\* cleanup(), the callback of the interval
ListenerSetCleanup ==
    /\ lsListeners' = CleanupLoop(lsListeners, lsHeld)
    /\ lsSwept' = lsHeld
    /\ lsLast' = [ListenerSetNoOp EXCEPT !.op = "cleanup", !.before = lsListeners]
    /\ UNCHANGED <<heap, mergeVars, retryVars, optVars, ssVars, smVars, devVars, idbVars, migVars, selVars, createVars, storeVars, provVars, regVars, simpleVars,
                   lsHeld>>

\* the program drops its last reference to a callback
CallbackDropped(l) ==
    /\ lsHeld[l] = "reachable"
    /\ lsHeld' = [lsHeld EXCEPT ![l] = "unreachable"]
    /\ lsLast' = ListenerSetNoOp
    /\ UNCHANGED <<heap, mergeVars, retryVars, optVars, ssVars, smVars, devVars, idbVars, migVars, selVars, createVars, storeVars, provVars, regVars, simpleVars,
                   lsListeners, lsSwept>>

\* the collector reclaims an unreachable callback: its WeakRefs are cleared
CallbackCollected(l) ==
    /\ lsHeld[l] = "unreachable"
    /\ lsHeld' = [lsHeld EXCEPT ![l] = "collected"]
    /\ lsLast' = ListenerSetNoOp
    /\ UNCHANGED <<heap, mergeVars, retryVars, optVars, ssVars, smVars, devVars, idbVars, migVars, selVars, createVars, storeVars, provVars, regVars, simpleVars,
                   lsListeners, lsSwept>>

NextListenerSet ==
    \/ \E l \in CallbackIds : ListenerSetAdd(l)
    \/ \E l \in CallbackIds : ListenerSetDelete(l)
    \/ \E p \in PerformanceArgs : ListenerSetNotify(p)
    \/ ListenerSetCleanup
    \/ \E l \in CallbackIds : CallbackDropped(l)
    \/ \E l \in CallbackIds : CallbackCollected(l)

\* how many entries the registry holds for a callback
Entries(refs, l) == Len(SelectSeq(refs, LAMBDA ref : ref = l))

(***************************************************************************)
(* C18  The registry is de-duplicated by listener identity: a callback     *)
(* added more than once has a single entry, so a notify calls it exactly   *)
(* once and one delete leaves no entry for it.                             *)
(***************************************************************************)
C18_DeDuplicated ==
    /\ \A l \in DOMAIN lsHeld : Entries(lsListeners, l) <= 1
    /\ (lsLast.op = "notify" /\ ~lsLast.threw) =>
          \A l \in DOMAIN lsHeld :
              (InSeq(l, lsLast.before) /\ lsHeld[l] # "collected") =>
                  Entries(lsLast.invoked, l) = 1
    /\ lsLast.op = "delete" => ~InSeq(lsLast.l, lsListeners)

MaxDeliveries == 3

\* the selectors: each returns the slice of the state at a path
Selectors == {<<"count">>, <<"user">>, <<"user", "name">>}

\* selector(state)
RECURSIVE Select(_, _, _)
Select(h, st, path) ==
    IF path = <<>> THEN st ELSE Select(h, GetField(h, st, Head(path)), Tail(path))

EqualityFns == {"Object.is", "isStateEqual"}

\* typeof v
Typeof(v) ==
    CASE v.k = "num" -> "number"
      [] v.k = "undef" -> "undefined"
      [] v.k = "fn" -> "function"
      [] OTHER -> "object"

\* isStateEqual (utils.ts 214-228)
RECURSIVE isStateEqual(_, _, _)
isStateEqual(h, prev, next) ==
    IF prev = next THEN TRUE
    ELSE IF Typeof(prev) # Typeof(next) THEN FALSE
    ELSE IF Typeof(prev) # "object" THEN prev = next
    ELSE IF prev = Null \/ next = Null THEN prev = next
    ELSE /\ Cardinality(DOMAIN h[prev.n].f) = Cardinality(DOMAIN h[next.n].f)
         /\ \A key \in DOMAIN h[prev.n].f :
               isStateEqual(h, GetField(h, prev, key), GetField(h, next, key))

\* equalityFn(a, b): Object.is compares numbers by value and objects by reference
EqualityFn(eq, h, a, b) == IF eq = "Object.is" THEN a = b ELSE isStateEqual(h, a, b)

\* a listener that calls setValue whatever the selector returns
listenerUngated(eq, h, prevValue, nextValue) == [prevValue |-> nextValue, fired |-> TRUE]

\* the listener of useSelector, given nextValue = stableSelector(nextState)
listener(eq, h, prevValue, nextValue) ==
    IF ~EqualityFn(eq, h, prevValue, nextValue)
    THEN [prevValue |-> nextValue, fired |-> TRUE]
    ELSE [prevValue |-> prevValue, fired |-> FALSE]

\* the function createSelector returns, called with state st
Memoized(eq, h, memo, st, path) ==
    IF st = memo.prevState
    THEN [memo |-> memo, result |-> memo.prevResult]
    ELSE IF EqualityFn(eq, h, memo.prevResult, Select(h, st, path))
    THEN [memo |-> memo, result |-> memo.prevResult]
    ELSE [memo |-> [prevResult |-> Select(h, st, path), prevState |-> st],
          result |-> Select(h, st, path)]

\* the updates that are merged into the state
SelectorUpdates ==
    {TObj([count |-> TNum(1)]),
     TObj([count |-> TNum(2)]),
     TObj([user |-> TObj([theme |-> TNum(1)])]),
     TObj([user |-> TObj([theme |-> TNum(2)])]),
     TObj([user |-> TObj([name |-> TNum(2)])])}

SelectorNoOp == [op |-> "none", update |-> TUndefined, slice |-> Undefined, prev |-> Undefined,
                 next |-> Undefined, fired |-> FALSE, memoBefore |-> Undefined,
                 memoResult |-> Undefined]

\* the component has rendered once: useState(() => stableSelector(state)),
\* useRef(value), and the memoized selector was applied to the same state
SelectorInit ==
    LET a == Alloc(<<>>, InitialTree)
    IN /\ heap = a.h
       /\ uState = a.v
       /\ uSelector \in Selectors
       /\ uEquality \in EqualityFns
       /\ uPrevValue = Select(a.h, a.v, uSelector)
       /\ uFired = 0
       /\ uMemo = Memoized(uEquality, a.h, [prevResult |-> Undefined, prevState |-> Undefined],
                           a.v, uSelector)
       /\ uCalls = 0
       /\ uLast = SelectorNoOp

SelectorIdle ==
    /\ uState = Undefined
    /\ uSelector = <<>>
    /\ uEquality = "Object.is"
    /\ uPrevValue = Undefined
    /\ uFired = 0
    /\ uMemo = [memo |-> [prevResult |-> Undefined, prevState |-> Undefined], result |-> Undefined]
    /\ uCalls = 0
    /\ uLast = SelectorNoOp

\* update t is merged into the state, the listener is called with the new state
\* and the memoized selector is applied to it
SelectorCall(t) ==
    /\ uCalls < MaxDeliveries
    /\ LET a == Alloc(heap, t)
           r == deepMerge(a.h, uState, a.v)
           nextValue == Select(r.h, r.v, uSelector)
           l == listener(uEquality, r.h, uPrevValue, nextValue)
           m == Memoized(uEquality, r.h, uMemo.memo, r.v, uSelector)
       IN /\ heap' = r.h
          /\ uState' = r.v
          /\ uPrevValue' = l.prevValue
          /\ uFired' = uFired + (IF l.fired THEN 1 ELSE 0)
          /\ uMemo' = m
          /\ uLast' = [op |-> "call", update |-> t,
                       slice |-> Select(heap, uState, uSelector),
                       prev |-> uPrevValue, next |-> nextValue, fired |-> l.fired,
                       memoBefore |-> uMemo.result, memoResult |-> m.result]
    /\ uCalls' = uCalls + 1
    /\ UNCHANGED <<mergeVars, retryVars, optVars, ssVars, smVars, devVars, idbVars, migVars, createVars, storeVars, provVars, regVars, simpleVars, lsVars,
                   uSelector, uEquality>>

NextSelector == \E t \in SelectorUpdates : SelectorCall(t)

\* update t writes the slice at path, or an object that contains it
RECURSIVE Touches(_, _)
Touches(t, path) ==
    IF path = <<>> \/ t.k # "obj"
    THEN TRUE
    ELSE Head(path) \in DOMAIN t.f /\ Touches(t.f[Head(path)], Tail(path))

\* a and b differ under the equality checker: by identity, or by content
Differs(eq, h, a, b) == IF eq = "Object.is" THEN a # b ELSE Tree(h, a) # Tree(h, b)

MaxVersion == 3

Versions == 0..MaxVersion

\* the version a stored record can carry: one beyond the newest version too
StoredVersions == 0..(MaxVersion + 1)

MigrationVariants ==
    {"MigrationManager", "LocalStorageAdapter", "MemoryAdapter",
     "IndexedDBStorage", "MigrationSystem"}

UsesManager(variant) ==
    variant \in {"MigrationManager", "LocalStorageAdapter", "MemoryAdapter"}

Keys(migrations) == {migrations[i] : i \in 1..Len(migrations)}

\* Array.prototype.sort((a, b) => a - b) over distinct keys
RECURSIVE SortAscending(_)
SortAscending(S) ==
    IF S = {} THEN <<>>
    ELSE LET least == CHOOSE v \in S : \A w \in S : v <= w
         IN  <<least>> \o SortAscending(S \ {least})

Returned(applied) == [threw |-> "none", applied |-> applied, returned |-> TRUE]

Thrown(code, applied) == [threw |-> code, applied |-> applied, returned |-> FALSE]

\* MigrationManager.addMigration: the guard that rejects a version
addMigrationThrows(version, currentVersion) == version >= currentVersion

\* MigrationManager.migrateData: every held migration in (fromVersion,
\* currentVersion], ascending
migrateData(migrations, currentVersion, fromVersion) ==
    Returned(SortAscending({v \in Keys(migrations) :
                               v > fromVersion /\ v <= currentVersion}))

\* LocalStorageAdapter.get / MemoryAdapter.get over the migrations object of
\* createStorageConfig: one entry per held version, each calling migrateData
adapterGet(migrations, currentVersion, version, code) ==
    IF version = currentVersion THEN Returned(<<>>)
    ELSE IF version \in Keys(migrations)
         THEN migrateData(migrations, currentVersion, version)
         ELSE Thrown(code, <<>>)

\* IndexedDBStorage.migrateState: the configured array in its own order
RECURSIVE migrateStateLoop(_, _, _)
migrateStateLoop(migrations, fromVersion, applied) ==
    IF migrations = <<>> THEN applied
    ELSE migrateStateLoop(Tail(migrations), fromVersion,
                          IF Head(migrations) > fromVersion
                          THEN Append(applied, Head(migrations))
                          ELSE applied)

migrateState(migrations, fromVersion) ==
    Returned(migrateStateLoop(migrations, fromVersion, <<>>))

\* IndexedDBStorage.get, onsuccess, for a record with data
indexedDBGet(migrations, currentVersion, version) ==
    IF version < currentVersion
    THEN migrateState(migrations, version)
    ELSE Returned(<<>>)

\* MigrationSystem.getMigrationPath
getMigrationPath(currentVersion, target) ==
    [i \in 1..(IF target > currentVersion THEN target - currentVersion ELSE 0)
        |-> currentVersion + i]

\* MigrationSystem.migrate, the system built for the stored record's version
RECURSIVE migrateLoop(_, _, _)
migrateLoop(migrations, versions, applied) ==
    IF versions = <<>> THEN Returned(applied)
    ELSE IF Head(versions) \notin Keys(migrations)
         THEN Thrown("MISSING_MIGRATION", applied)
         ELSE migrateLoop(migrations, Tail(versions),
                          Append(applied, Head(versions)))

migrate(migrations, currentVersion, targetVersion) ==
    migrateLoop(migrations, getMigrationPath(currentVersion, targetVersion), <<>>)

\* reading a stored record of the given version through each implementation
Load(variant, migrations, currentVersion, version) ==
    CASE variant = "MigrationManager" ->
            migrateData(migrations, currentVersion, version)
      [] variant = "LocalStorageAdapter" ->
            adapterGet(migrations, currentVersion, version, "STORAGE_ERROR")
      [] variant = "MemoryAdapter" ->
            adapterGet(migrations, currentVersion, version, "Error")
      [] variant = "IndexedDBStorage" ->
            indexedDBGet(migrations, currentVersion, version)
      [] variant = "MigrationSystem" ->
            migrate(migrations, version, currentVersion)

MigrationNoOp ==
    [op |-> "none", version |-> 0, threw |-> "none", applied |-> <<>>,
     returned |-> FALSE]

MigrationInit ==
    /\ gVariant \in MigrationVariants
    /\ gVersion \in 1..MaxVersion
    /\ gSupplied = {}
    /\ gMigrations = <<>>
    /\ gLast = MigrationNoOp

MigrationIdle ==
    /\ gVariant = "none"
    /\ gVersion = 0
    /\ gSupplied = {}
    /\ gMigrations = <<>>
    /\ gLast = MigrationNoOp

\* the caller supplies the migration for one more version
MigrationAdd(version) ==
    /\ version \notin gSupplied
    /\ gLast.op # "migrate"
    /\ LET throws == UsesManager(gVariant) /\ addMigrationThrows(version, gVersion)
       IN  /\ gSupplied' = gSupplied \cup {version}
           /\ gMigrations' = IF throws THEN gMigrations
                             ELSE Append(gMigrations, version)
           /\ gLast' = [MigrationNoOp EXCEPT !.op = "add", !.version = version,
                           !.threw = IF throws THEN "Error" ELSE "none"]
    /\ UNCHANGED <<heap, mergeVars, retryVars, optVars, ssVars, smVars, devVars, idbVars, createVars, storeVars, provVars, regVars,
                   simpleVars, lsVars, selVars, gVariant, gVersion>>

\* a stored record of the given version is read
MigrationLoad(version) ==
    /\ LET r == Load(gVariant, gMigrations, gVersion, version)
       IN  gLast' = [op |-> "migrate", version |-> version, threw |-> r.threw,
                     applied |-> r.applied, returned |-> r.returned]
    /\ UNCHANGED <<heap, mergeVars, retryVars, optVars, ssVars, smVars, devVars, idbVars, createVars, storeVars, provVars, regVars,
                   simpleVars, lsVars, selVars, gVariant, gVersion, gSupplied,
                   gMigrations>>

NextMigration ==
    \/ \E version \in Versions : MigrationAdd(version)
    \/ \E version \in StoredVersions : MigrationLoad(version)

\* the versions strictly above from, up to to, ascending
Chain(from, to) == [i \in 1..(IF to > from THEN to - from ELSE 0) |-> from + i]

SuppliedAscending ==
    \A i, j \in 1..Len(gMigrations) : i < j => gMigrations[i] < gMigrations[j]

(***************************************************************************)
(* C25  Migration chain correctness: with a migration supplied for every   *)
(* version up to the current one, a record stored at an older version is   *)
(* taken through exactly the migrations for the versions above its own, up *)
(* to the current version, in ascending order (version 1 of 3 gets 2 then  *)
(* 3, version 0 gets 1, 2, 3).                                             *)
(***************************************************************************)
C25_MigrationChain ==
    (/\ gLast.op = "migrate"
     /\ gVariant \in {"MigrationManager", "IndexedDBStorage"}
     /\ gLast.version < gVersion
     /\ (1..gVersion) \subseteq gSupplied
     /\ SuppliedAscending) =>
        /\ gLast.threw = "none"
        /\ gLast.applied = Chain(gLast.version, gVersion)

(***************************************************************************)
(* C26  Missing migration: when a version between the stored one and the   *)
(* current one has no migration supplied, reading the record fails; no     *)
(* migration beyond the gap is applied and no data is returned.            *)
(***************************************************************************)
C26_MissingMigrationFails ==
    (/\ gLast.op = "migrate"
     /\ gVariant \in {"MigrationManager", "LocalStorageAdapter", "MigrationSystem"}
     /\ gLast.version < gVersion
     /\ \E v \in (gLast.version + 1)..gVersion : v \notin gSupplied) =>
        /\ gLast.threw # "none"
        /\ ~gLast.returned
        /\ \A i \in 1..Len(gLast.applied) :
              \A v \in (gLast.version + 1)..gLast.applied[i] : v \in gSupplied

(***************************************************************************)
(* C27  Future version: reading a record stored at a version above the     *)
(* current one fails; its data is not returned and no migration is applied.*)
(***************************************************************************)
C27_FutureVersionFails ==
    (/\ gLast.op = "migrate"
     /\ gVariant \in {"MigrationManager", "MemoryAdapter"}
     /\ gLast.version > gVersion) =>
        /\ gLast.threw # "none"
        /\ ~gLast.returned
        /\ gLast.applied = <<>>

(***************************************************************************)
(* IndexedDBStorage (unnamed/part_006): get() with connect, withRetry and  *)
(* handleError.  The requests of IndexedDB complete by events; the promise *)
(* get() returned is pending, fulfilled or rejected.                       *)
(***************************************************************************)
MaxGets == 2

\* this.config.retry?.attempts || 3
RetryAttempts == 3

IdbNoOp == [op |-> "none", attempt |-> 0, result |-> <<>>]

IdbInit ==
    /\ iOnError \in BOOLEAN
    /\ iVersion \in 1..MaxVersion
    /\ iStored \in StoredVersions
    /\ iDb = FALSE
    /\ iPhase = "idle"
    /\ iPromise = "none"
    /\ iAttempt = 0
    /\ iGets = 0
    /\ iOnErrorCalls = 0
    /\ iUncaught = 0
    /\ iLast = IdbNoOp

IdbIdle ==
    /\ iOnError = FALSE
    /\ iVersion = 0
    /\ iStored = 0
    /\ iDb = FALSE
    /\ iPhase = "idle"
    /\ iPromise = "none"
    /\ iAttempt = 0
    /\ iGets = 0
    /\ iOnErrorCalls = 0
    /\ iUncaught = 0
    /\ iLast = IdbNoOp

\* handleError, called from an event handler: config.onError is called if it
\* is there and the error is thrown, out of the handler; nothing rejects the
\* promise the handler was set up in
handleError ==
    /\ iOnErrorCalls' = iOnErrorCalls + (IF iOnError THEN 1 ELSE 0)
    /\ iUncaught' = iUncaught + 1
    /\ iPromise' = iPromise
    /\ iPhase' = "idle"

\* get(): withRetry runs the operation, which awaits connect(); connect returns
\* the cached database or opens one
IdbGet ==
    /\ iPhase = "idle"
    /\ iGets < MaxGets
    /\ iGets' = iGets + 1
    /\ iAttempt' = 1
    /\ iPromise' = "pending"
    /\ iPhase' = IF iDb THEN "connected" ELSE "opening"
    /\ iLast' = [IdbNoOp EXCEPT !.op = "get", !.attempt = 1]
    /\ UNCHANGED <<heap, mergeVars, retryVars, optVars, ssVars, smVars, devVars, migVars, createVars, storeVars, provVars, regVars,
                   simpleVars, lsVars, selVars, iOnError, iVersion, iStored, iDb,
                   iOnErrorCalls, iUncaught>>

\* request.onsuccess of connect
IdbOpenSuccess ==
    /\ iPhase = "opening"
    /\ iDb' = TRUE
    /\ iPhase' = "connected"
    /\ iLast' = [IdbNoOp EXCEPT !.op = "openSuccess", !.attempt = iAttempt]
    /\ UNCHANGED <<heap, mergeVars, retryVars, optVars, ssVars, smVars, devVars, migVars, createVars, storeVars, provVars, regVars,
                   simpleVars, lsVars, selVars, iOnError, iVersion, iStored, iPromise,
                   iAttempt, iGets, iOnErrorCalls, iUncaught>>

\* request.onerror of connect
IdbOpenError ==
    /\ iPhase = "opening"
    /\ handleError
    /\ iLast' = [IdbNoOp EXCEPT !.op = "openError", !.attempt = iAttempt]
    /\ UNCHANGED <<heap, mergeVars, retryVars, optVars, ssVars, smVars, devVars, migVars, createVars, storeVars, provVars, regVars,
                   simpleVars, lsVars, selVars, iOnError, iVersion, iStored, iDb,
                   iAttempt, iGets>>

\* db.transaction(...) and store.get("current") in the executor of get
IdbRequest ==
    /\ iPhase = "connected"
    /\ iPhase' = "reading"
    /\ iLast' = [IdbNoOp EXCEPT !.op = "request", !.attempt = iAttempt]
    /\ UNCHANGED <<heap, mergeVars, retryVars, optVars, ssVars, smVars, devVars, migVars, createVars, storeVars, provVars, regVars,
                   simpleVars, lsVars, selVars, iOnError, iVersion, iStored, iDb,
                   iPromise, iAttempt, iGets, iOnErrorCalls, iUncaught>>

\* db.transaction(...) throws in the executor: the promise of the operation is
\* rejected and withRetry runs the operation again until the attempts are used
IdbTransactionThrows ==
    /\ iPhase = "connected"
    /\ IF iAttempt < RetryAttempts
       THEN /\ iAttempt' = iAttempt + 1
            /\ iPhase' = "connected"
            /\ iPromise' = iPromise
       ELSE /\ iAttempt' = iAttempt
            /\ iPhase' = "idle"
            /\ iPromise' = "rejected"
    /\ iLast' = [IdbNoOp EXCEPT !.op = "transactionThrew", !.attempt = iAttempt]
    /\ UNCHANGED <<heap, mergeVars, retryVars, optVars, ssVars, smVars, devVars, migVars, createVars, storeVars, provVars, regVars,
                   simpleVars, lsVars, selVars, iOnError, iVersion, iStored, iDb,
                   iGets, iOnErrorCalls, iUncaught>>

\* request.onsuccess of get: the record is resolved, migrated if it is older
IdbReadSuccess ==
    /\ iPhase = "reading"
    /\ iPhase' = "idle"
    /\ iPromise' = "fulfilled"
    /\ iLast' = [IdbNoOp EXCEPT !.op = "readSuccess", !.attempt = iAttempt,
                    !.result = indexedDBGet(Chain(0, iVersion), iVersion, iStored).applied]
    /\ UNCHANGED <<heap, mergeVars, retryVars, optVars, ssVars, smVars, devVars, migVars, createVars, storeVars, provVars, regVars,
                   simpleVars, lsVars, selVars, iOnError, iVersion, iStored, iDb,
                   iAttempt, iGets, iOnErrorCalls, iUncaught>>

\* request.onerror of get
IdbReadError ==
    /\ iPhase = "reading"
    /\ handleError
    /\ iLast' = [IdbNoOp EXCEPT !.op = "readError", !.attempt = iAttempt]
    /\ UNCHANGED <<heap, mergeVars, retryVars, optVars, ssVars, smVars, devVars, migVars, createVars, storeVars, provVars, regVars,
                   simpleVars, lsVars, selVars, iOnError, iVersion, iStored, iDb,
                   iAttempt, iGets>>

NextIdb ==
    \/ IdbGet
    \/ IdbOpenSuccess
    \/ IdbOpenError
    \/ IdbRequest
    \/ IdbTransactionThrows
    \/ IdbReadSuccess
    \/ IdbReadError

(***************************************************************************)
(* C29  Every error of a get() (the connection fails, the read fails) is   *)
(* surfaced as a rejection of the promise get() returned: once an error    *)
(* event has ended the call the promise is rejected, and a call that is    *)
(* over never leaves its promise pending.                                  *)
(***************************************************************************)
C29_ErrorsReject ==
    /\ iLast.op \in {"openError", "readError"} => iPromise = "rejected"
    /\ (iPhase = "idle" /\ iGets > 0) => iPromise \in {"fulfilled", "rejected"}

(***************************************************************************)
(* DevTools (dev-tools/index.ts) next to the state of `create`             *)
(* (core/core.ts 33-36).  A state is modelled by its count; structuredClone *)
(* of it is a value equal to it.                                           *)
(***************************************************************************)
MaxSnapshots == 2
MaxActions == 2

DevStates == 0..2

\* config.initialState
DevInitialState == 0

ActionTypes == {"increment", "reset"}

\* getDevToolsState().currentState: the state of the last snapshot, undefined
\* when there is none
CurrentState(snapshots) ==
    IF snapshots = <<>> THEN [defined |-> FALSE, state |-> 0]
    ELSE [defined |-> TRUE, state |-> snapshots[Len(snapshots)]]

\* notifyListeners: every subscribed callback gets the DevTools state
notifyListeners(D) ==
    IF D.listening THEN [D EXCEPT !.notified = Append(@, CurrentState(D.snapshots))]
    ELSE D

\* createSnapshot: push, drop the oldest beyond maxSnapshots, notify
createSnapshot(D, s) ==
    IF ~D.enabled THEN D
    ELSE LET pushed == Append(D.snapshots, s)
             kept == IF Len(pushed) > D.maxSnapshots THEN Tail(pushed) ELSE pushed
         IN notifyListeners([D EXCEPT !.snapshots = kept])

\* setState called without an action type
NoType == ""

\* logAction: the action, a type and a payload, is pushed onto the log
logAction(D, action) ==
    IF ~D.enabled THEN D
    ELSE notifyListeners([D EXCEPT !.actions = Append(@, action)])

\* clearHistory
clearHistory(D) ==
    IF ~D.enabled THEN D
    ELSE notifyListeners([D EXCEPT !.actions = <<>>, !.snapshots = <<>>])

\* importState: the history is cleared and a snapshot of the state is taken;
\* the state of the store is not among the things it can reach
importState(D, s) ==
    IF ~D.enabled THEN D
    ELSE createSnapshot(clearHistory(D), s)

\* the DevTools object and the store's state as one record
DevRecord ==
    [enabled |-> dEnabled, maxSnapshots |-> MaxSnapshots, listening |-> dListening,
     actions |-> dActions, snapshots |-> dSnapshots, store |-> dStore,
     notified |-> <<>>]

DevNoOp == [op |-> "none", s |-> 0, notified |-> <<>>, calls |-> <<>>, logged |-> <<>>]

\* let batchUpdateScheduled = false; const pendingUpdates = []; nothing queued
NoBatch ==
    [pendingUpdates |-> <<>>, batchUpdateScheduled |-> FALSE, flushQueued |-> FALSE,
     actionType |-> NoType, update |-> 0, task |-> <<>>]

\* create with options.devTools: state = config.initialState, new DevTools
\* takes the initial snapshot when it is enabled
DevToolsInit ==
    /\ dEnabled \in BOOLEAN
    /\ dListening \in BOOLEAN
    /\ dStore = DevInitialState
    /\ dActions = <<>>
    /\ dSnapshots = IF dEnabled THEN <<DevInitialState>> ELSE <<>>
    /\ dBatch = NoBatch
    /\ dLast = DevNoOp

DevToolsIdle ==
    /\ dEnabled = FALSE
    /\ dListening = FALSE
    /\ dStore = 0
    /\ dActions = <<>>
    /\ dSnapshots = <<>>
    /\ dBatch = NoBatch
    /\ dLast = DevNoOp

DevApply(D, op, s) ==
    /\ dActions' = D.actions
    /\ dSnapshots' = D.snapshots
    /\ dStore' = D.store
    /\ dLast' = [DevNoOp EXCEPT !.op = op, !.s = s, !.notified = D.notified]

DevLogAction(type) ==
    /\ Len(dActions) < MaxActions
    /\ DevApply(logAction(DevRecord, [type |-> type, payload |-> 0]), "logAction", 0)
    /\ UNCHANGED <<heap, mergeVars, retryVars, optVars, ssVars, smVars, migVars, idbVars, createVars, storeVars, provVars,
                   regVars, simpleVars, lsVars, selVars, dEnabled, dListening, dBatch>>

DevCreateSnapshot(s) ==
    /\ DevApply(createSnapshot(DevRecord, s), "createSnapshot", s)
    /\ UNCHANGED <<heap, mergeVars, retryVars, optVars, ssVars, smVars, migVars, idbVars, createVars, storeVars, provVars,
                   regVars, simpleVars, lsVars, selVars, dEnabled, dListening, dBatch>>

DevImportState(s) ==
    /\ DevApply(importState(DevRecord, s), "importState", s)
    /\ UNCHANGED <<heap, mergeVars, retryVars, optVars, ssVars, smVars, migVars, idbVars, createVars, storeVars, provVars,
                   regVars, simpleVars, lsVars, selVars, dEnabled, dListening, dBatch>>

DevClearHistory ==
    /\ DevApply(clearHistory(DevRecord), "clearHistory", 0)
    /\ UNCHANGED <<heap, mergeVars, retryVars, optVars, ssVars, smVars, migVars, idbVars, createVars, storeVars, provVars,
                   regVars, simpleVars, lsVars, selVars, dEnabled, dListening, dBatch>>

\* setState(update, actionType), called by the function createAction returns
\* or directly: the update is queued; the first call since the last flush sets
\* the flag and reads performance.now() before it schedules the flush, whose
\* closure holds this call's actionType and update
DevSetState(update, type) ==
    /\ Len(dBatch.pendingUpdates) < MaxActions
    /\ LET first == ~dBatch.batchUpdateScheduled
           scheduled == first /\ ~PerformanceNowThrows
       IN dBatch' = [pendingUpdates |-> Append(dBatch.pendingUpdates, update),
                     batchUpdateScheduled |-> TRUE,
                     flushQueued |-> (dBatch.flushQueued \/ scheduled),
                     actionType |-> IF scheduled THEN type ELSE dBatch.actionType,
                     update |-> IF scheduled THEN update ELSE dBatch.update,
                     task |-> Append(dBatch.task, [type |-> type, payload |-> update])]
    /\ dLast' = [DevNoOp EXCEPT !.op = "setState", !.s = update]
    /\ UNCHANGED <<heap, mergeVars, retryVars, optVars, ssVars, smVars, migVars, idbVars, createVars,
                   storeVars, provVars, regVars, simpleVars, lsVars, selVars, dEnabled,
                   dListening, dStore, dActions, dSnapshots>>

\* The running task ends and the microtask queue is drained: the flush callback,
\* if it was queued, reduces the pending updates into the state (the last count
\* wins), logs the action of its closure when that has a type, takes a
\* snapshot, and in its finally block clears the flag and the queue.
DevEndTask ==
    /\ dBatch.task # <<>>
    /\ IF dBatch.flushQueued
       THEN LET nextState == dBatch.pendingUpdates[Len(dBatch.pendingUpdates)]
                merged == [DevRecord EXCEPT !.store = nextState]
                logged == IF dBatch.actionType # NoType
                          THEN logAction(merged, [type |-> dBatch.actionType,
                                                  payload |-> dBatch.update])
                          ELSE merged
                D == createSnapshot(logged, nextState)
            IN /\ dActions' = D.actions
               /\ dSnapshots' = D.snapshots
               /\ dStore' = D.store
               /\ dBatch' = NoBatch
       ELSE /\ dBatch' = [dBatch EXCEPT !.task = <<>>]
            /\ UNCHANGED <<dActions, dSnapshots, dStore>>
    /\ dLast' = [DevNoOp EXCEPT !.op = "endTask", !.calls = dBatch.task,
                                !.logged = SubSeq(dActions', Len(dActions) + 1,
                                                  Len(dActions'))]
    /\ UNCHANGED <<heap, mergeVars, retryVars, optVars, ssVars, smVars, migVars, idbVars, createVars,
                   storeVars, provVars, regVars, simpleVars, lsVars, selVars, dEnabled,
                   dListening>>

NextDevTools ==
    \/ \E type \in ActionTypes : DevLogAction(type)
    \/ \E s \in DevStates : DevCreateSnapshot(s)
    \/ \E s \in DevStates : DevImportState(s)
    \/ DevClearHistory
    \/ \E update \in DevStates, type \in ActionTypes \cup {NoType} : DevSetState(update, type)
    \/ DevEndTask

\* the calls of a task that were made with an action type
TypedCalls(calls) == SelectSeq(calls, LAMBDA c : c.type # NoType)

(***************************************************************************)
(* C39  The action log records every transition: when the task's           *)
(* microtasks have run, the log has gained exactly one entry for every     *)
(* setState call of the task that was made with an action type, carrying   *)
(* that call's own type and payload, in the order of the calls, also when  *)
(* the calls were coalesced into one batch.                                *)
(***************************************************************************)
C39_EveryActionLogged ==
    (dLast.op = "endTask" /\ dEnabled) => dLast.logged = TypedCalls(dLast.calls)

(***************************************************************************)
(* C30  importState(s) resets the store's canonical state to s and clears  *)
(* the recorded history: afterwards getState() returns s, no action        *)
(* remains in the log and the only snapshot is the one of s.               *)
(***************************************************************************)
C30_ImportResetsStateAndHistory ==
    (dLast.op = "importState" /\ dEnabled) =>
        /\ dStore = dLast.s
        /\ dActions = <<>>
        /\ dSnapshots = <<dLast.s>>

(***************************************************************************)
(* StorageManager (unnamed/part_008 476-618): set, remove and clear queue  *)
(* an operation and (re)start the batch timer; flushPendingOperations      *)
(* takes the queue, groups and sorts it and awaits the adapter once per    *)
(* operation, so other calls can run while a flush is under way.  get is   *)
(* modelled where its own flush has the whole queue to itself: no flush is *)
(* under way, or one is and nothing is pending.                            *)
(***************************************************************************)
MaxOps == 3

StorageKeys == {"a", "b"}

StorageValues == 1..2

\* the adapter's contents: 0 stands for an absent key
EmptyStore == [k \in StorageKeys |-> 0]

\* private maxRetries = 3
maxRetries == 3

StorageOps ==
    [type : {"set"}, key : StorageKeys, value : StorageValues]
        \cup [type : {"remove"}, key : StorageKeys, value : {0}]
        \cup [type : {"clear"}, key : {"clear"}, value : {0}]

\* adapter.set / adapter.remove / adapter.clear
ApplyOp(store, op) ==
    CASE op.type = "set" -> [store EXCEPT ![op.key] = op.value]
      [] op.type = "remove" -> [store EXCEPT ![op.key] = 0]
      [] op.type = "clear" -> EmptyStore

\* the operations applied one by one in the order they were issued
RECURSIVE ApplyInOrder(_, _)
ApplyInOrder(store, ops) ==
    IF ops = <<>> THEN store
    ELSE ApplyInOrder(ApplyOp(store, Head(ops)), Tail(ops))

\* `${op.type}-${op.key || 'clear'}`
GroupKey(op) == <<op.type, op.key>>

\* operations.reduce((acc, op) => acc.set(key, op), new Map()): the latest
\* operation of each group, at the place the group's first operation took
RECURSIVE Group(_, _)
Group(ops, acc) ==
    IF ops = <<>> THEN acc
    ELSE LET op == Head(ops)
             at == {i \in 1..Len(acc) : GroupKey(acc[i]) = GroupKey(op)}
         IN Group(Tail(ops),
                  IF at = {} THEN Append(acc, op)
                  ELSE [i \in 1..Len(acc) |-> IF i \in at THEN op ELSE acc[i]])

\* Array.from(grouped.values()).sort(by priority clear 0, remove 1, set 2)
SortByPriority(g) ==
    SelectSeq(g, LAMBDA op : op.type = "clear")
        \o SelectSeq(g, LAMBDA op : op.type = "remove")
        \o SelectSeq(g, LAMBDA op : op.type = "set")

\* what a flush executes for the operations it took
FlushOrder(ops) == SortByPriority(Group(ops, <<>>))

\* handleError(operation, ...): logs and returns null for 'get', throws otherwise
handleErrorThrows(operation) == operation # "get"

NoFlush ==
    [active |-> FALSE, owner |-> "none", ops |-> <<>>, todo |-> <<>>,
     before |-> EmptyStore, key |-> "a", want |-> 0, later |-> {}]

SmNoOp ==
    [op |-> "none", flushed |-> FALSE, before |-> EmptyStore, ops |-> <<>>,
     key |-> "a", result |-> 0, want |-> 0, later |-> {}, requeued |-> FALSE]

StorageManagerInit ==
    /\ tPending = <<>>
    /\ tAdapter \in [StorageKeys -> {0, 1}]
    /\ tRef = tAdapter
    /\ tTimer = FALSE
    /\ tRetryTimer = FALSE
    /\ tRetryCount = 0
    /\ tFlush = NoFlush
    /\ tIssued = 0
    /\ tFailed = FALSE
    /\ tUnhandled = 0
    /\ tLast = SmNoOp

StorageManagerIdle ==
    /\ tPending = <<>>
    /\ tAdapter = EmptyStore
    /\ tRef = EmptyStore
    /\ tTimer = FALSE
    /\ tRetryTimer = FALSE
    /\ tRetryCount = 0
    /\ tFlush = NoFlush
    /\ tIssued = 0
    /\ tFailed = FALSE
    /\ tUnhandled = 0
    /\ tLast = SmNoOp

\* set / remove / clear: queueOperation pushes and scheduleBatch restarts the timer
SmQueue(op) ==
    /\ tIssued < MaxOps
    /\ tIssued' = tIssued + 1
    /\ tPending' = Append(tPending, op)
    /\ tTimer' = TRUE
    /\ tRef' = ApplyOp(tRef, op)
    /\ tFlush' = IF tFlush.owner = "get" /\ op.type = "set" /\ op.key = tFlush.key
                 THEN [tFlush EXCEPT !.later = @ \cup {op.value}]
                 ELSE tFlush
    /\ tLast' = [SmNoOp EXCEPT !.op = op.type]
    /\ UNCHANGED <<heap, mergeVars, retryVars, optVars, ssVars, devVars, idbVars, migVars, selVars, lsVars, simpleVars,
                   createVars, storeVars, provVars, regVars, tAdapter, tRetryTimer,
                   tRetryCount, tFailed, tUnhandled>>

\* the manager's fields and the adapter as one record
SmRecord ==
    [adapter |-> tAdapter, flush |-> tFlush, pending |-> tPending,
     retryCount |-> tRetryCount, retryTimer |-> tRetryTimer, failed |-> tFailed,
     unhandled |-> tUnhandled, last |-> tLast]

\* flushPendingOperations takes the queue: operations = [...pendingOperations]
TakeQueue(M, owner, key, want) ==
    [M EXCEPT !.flush = [NoFlush EXCEPT !.active = TRUE, !.owner = owner,
                                        !.ops = M.pending,
                                        !.todo = FlushOrder(M.pending),
                                        !.before = M.adapter, !.key = key,
                                        !.want = want],
              !.pending = <<>>]

\* the flush under way calls the adapter for its next operation and awaits it.
\* When the adapter rejects, the catch block calls handleError('batch', error)
\* first, which throws: the lines behind it, which requeue and retry, are not run
StepFlush(M, fails) ==
    IF ~fails
    THEN LET store == ApplyOp(M.adapter, Head(M.flush.todo))
             done == Len(M.flush.todo) = 1
         IN [M EXCEPT
                !.adapter = store,
                !.flush = IF done THEN NoFlush ELSE [@ EXCEPT !.todo = Tail(@)],
                !.retryCount = IF done THEN 0 ELSE @,
                !.last = IF ~done THEN [SmNoOp EXCEPT !.op = "step"]
                         ELSE [SmNoOp EXCEPT
                                  !.op = IF M.flush.owner = "get" THEN "get" ELSE "flush",
                                  !.flushed = TRUE, !.before = M.flush.before,
                                  !.ops = M.flush.ops, !.key = M.flush.key,
                                  !.result = store[M.flush.key],
                                  !.want = M.flush.want, !.later = M.flush.later]]
    ELSE LET retry == ~handleErrorThrows("batch") /\ M.retryCount < maxRetries
         IN [M EXCEPT
                !.flush = NoFlush,
                !.failed = TRUE,
                !.retryCount = IF retry THEN @ + 1 ELSE @,
                !.pending = IF retry THEN M.flush.ops \o @ ELSE @,
                !.retryTimer = (@ \/ retry),
                !.unhandled = @ + (IF ~retry /\ M.flush.owner # "get" THEN 1 ELSE 0),
                !.last = [SmNoOp EXCEPT
                             !.op = IF M.flush.owner = "get" THEN "getFailed"
                                    ELSE "flushFailed",
                             !.ops = M.flush.ops, !.requeued = retry,
                             !.key = M.flush.key, !.want = M.flush.want]]

SmApply(M) ==
    /\ tAdapter' = M.adapter
    /\ tFlush' = M.flush
    /\ tPending' = M.pending
    /\ tRetryCount' = M.retryCount
    /\ tRetryTimer' = M.retryTimer
    /\ tFailed' = M.failed
    /\ tUnhandled' = M.unhandled
    /\ tLast' = M.last

\* the batch timer fires: flushPendingOperations takes the queue and calls the
\* adapter for the first operation before it awaits anything
SmTimerFires(fails) ==
    /\ tTimer
    /\ ~tFlush.active
    /\ tPending # <<>>
    /\ tTimer' = FALSE
    /\ SmApply(StepFlush(TakeQueue(SmRecord, "timer", "a", 0), fails))
    /\ UNCHANGED <<heap, mergeVars, retryVars, optVars, ssVars, devVars, idbVars, migVars, selVars, lsVars, simpleVars,
                   createVars, storeVars, provVars, regVars, tRef, tIssued>>

\* get(key): await this.flushPendingOperations(), then adapter.get(key).  With
\* nothing pending the flush returns at once and the adapter is read; otherwise
\* the flush takes the queue and the read follows it
SmGet(key, fails) ==
    /\ tFlush.owner # "get"
    /\ tFlush.active => tPending = <<>>
    /\ tLast.op \notin {"get", "getFailed"}
    /\ IF tPending = <<>>
       THEN /\ ~fails
            /\ SmApply([SmRecord EXCEPT
                           !.last = [SmNoOp EXCEPT !.op = "get", !.key = key,
                                                   !.result = tAdapter[key],
                                                   !.want = tRef[key]]])
       ELSE SmApply(StepFlush(TakeQueue(SmRecord, "get", key, tRef[key]), fails))
    /\ UNCHANGED <<heap, mergeVars, retryVars, optVars, ssVars, devVars, idbVars, migVars, selVars, lsVars, simpleVars,
                   createVars, storeVars, provVars, regVars, tRef, tTimer, tIssued>>

\* the await of the flush under way resumes with the next operation
SmFlushStep(fails) ==
    /\ tFlush.active
    /\ SmApply(StepFlush(SmRecord, fails))
    /\ UNCHANGED <<heap, mergeVars, retryVars, optVars, ssVars, devVars, idbVars, migVars, selVars, lsVars, simpleVars,
                   createVars, storeVars, provVars, regVars, tRef, tTimer, tIssued>>

NextStorageManager ==
    \/ \E op \in StorageOps : SmQueue(op)
    \/ \E fails \in BOOLEAN : SmTimerFires(fails)
    \/ \E key \in StorageKeys, fails \in BOOLEAN : SmGet(key, fails)
    \/ \E fails \in BOOLEAN : SmFlushStep(fails)

(***************************************************************************)
(* C33  Read-your-writes: while the adapter has not failed, a get(key)     *)
(* issued after set(key, v) was the last operation on the key resolves to  *)
(* v or to a value set later, never to an older value or to null, also     *)
(* when a timer-triggered flush that took the set is still under way.      *)
(***************************************************************************)
C33_ReadYourWrites ==
    (tLast.op = "get" /\ ~tFailed /\ tLast.want # 0) =>
        tLast.result \in {tLast.want} \cup tLast.later

(***************************************************************************)
(* C34  Batching preserves semantics: when a flush has completed, the      *)
(* adapter holds what applying the operations of the batch one by one, in  *)
(* the order they were issued, to what it held before would have left.     *)
(***************************************************************************)
C34_BatchAsIssued ==
    tLast.flushed => tAdapter = ApplyInOrder(tLast.before, tLast.ops)

(***************************************************************************)
(* C35  Retry: when a flush has failed, the operations of its batch are    *)
(* back at the front of the pending queue and a retry is scheduled, while  *)
(* no more than maxRetries retries were made.                              *)
(***************************************************************************)
C35_FailedBatchRetried ==
    /\ tRetryCount <= maxRetries
    /\ tLast.op \in {"flushFailed", "getFailed"} =>
          /\ tRetryTimer
          /\ Len(tPending) >= Len(tLast.ops)
          /\ SubSeq(tPending, 1, Len(tLast.ops)) = tLast.ops

(***************************************************************************)
(* ServerState (unnamed/part_015 21-91): one instance over the module's    *)
(* SERVER_STATE map.  set awaits get(), so a set call is suspended between *)
(* the read of the current state and the write of the next one.            *)
(***************************************************************************)
MaxSets == 3

ServerFields == {"x", "y"}

\* config.initialState
ServerInitialState == [f \in ServerFields |-> 0]

\* the updates passed to set: one field with a new value
ServerUpdates ==
    {[f \in {g} |-> v] : g \in ServerFields, v \in 1..2}

NoCache == [present |-> FALSE, value |-> ServerInitialState]

NoServerState == [present |-> FALSE, value |-> ServerInitialState]

\* get(revalidate): the cached value when there is one, revalidate is false and
\* the entry has no ttl or is fresh; otherwise SERVER_STATE's value or
\* config.initialState, which is put into the cache
ServerGet(server, cache, revalidate, fresh) ==
    IF cache.present /\ ~revalidate /\ fresh
    THEN [value |-> cache.value, cache |-> cache]
    ELSE LET value == IF server.present THEN server.value ELSE ServerInitialState
         IN [value |-> value, cache |-> [present |-> TRUE, value |-> value]]

\* { ...current, ...update }
ServerSpread(current, update) ==
    [f \in ServerFields |-> IF f \in DOMAIN update THEN update[f] ELSE current[f]]

ServerNoOp ==
    [op |-> "none", update |-> <<>>, during |-> <<>>, result |-> ServerInitialState,
     notified |-> FALSE]

ServerStateInit ==
    /\ zServer = NoServerState
    /\ zCache = NoCache
    /\ zInflight = <<>>
    /\ zSubscribed \in BOOLEAN
    /\ zSets = 0
    /\ zLast = ServerNoOp

ServerStateIdle ==
    /\ zServer = NoServerState
    /\ zCache = NoCache
    /\ zInflight = <<>>
    /\ zSubscribed = FALSE
    /\ zSets = 0
    /\ zLast = ServerNoOp

\* set(update) is called: const current = await this.get()
ServerSetStart(update, fresh) ==
    /\ zSets < MaxSets
    /\ zSets' = zSets + 1
    /\ LET g == ServerGet(zServer, zCache, FALSE, fresh)
       IN /\ zCache' = g.cache
          /\ zInflight' = Append(zInflight, [update |-> update, current |-> g.value,
                                             during |-> <<>>])
    /\ zLast' = [ServerNoOp EXCEPT !.op = "setStarted", !.update = update]
    /\ UNCHANGED <<heap, mergeVars, retryVars, optVars, smVars, devVars, idbVars, migVars, selVars, lsVars,
                   simpleVars, createVars, storeVars, provVars, regVars, zServer,
                   zSubscribed>>

\* the await of the oldest suspended set resumes (the continuations run in the
\* order of the calls): next = { ...current, ...update } is written to
\* SERVER_STATE and to the cache, and the subscribers are called
ServerSetResume ==
    /\ zInflight # <<>>
    /\ LET call == Head(zInflight)
           next == ServerSpread(call.current, call.update)
           others == Tail(zInflight)
       IN /\ zServer' = [present |-> TRUE, value |-> next]
          /\ zCache' = [present |-> TRUE, value |-> next]
          /\ zInflight' = [n \in 1..Len(others) |->
                              [others[n] EXCEPT !.during = Append(@, call.update)]]
          /\ zLast' = [ServerNoOp EXCEPT !.op = "set", !.update = call.update,
                                         !.during = call.during, !.result = next,
                                         !.notified = zSubscribed]
    /\ UNCHANGED <<heap, mergeVars, retryVars, optVars, smVars, devVars, idbVars, migVars, selVars, lsVars,
                   simpleVars, createVars, storeVars, provVars, regVars, zSubscribed, zSets>>

\* get(revalidate) called by a reader
ServerGetCall(revalidate, fresh) ==
    /\ LET g == ServerGet(zServer, zCache, revalidate, fresh)
       IN /\ zCache' = g.cache
          /\ zLast' = [ServerNoOp EXCEPT !.op = "get", !.result = g.value]
    /\ UNCHANGED <<heap, mergeVars, retryVars, optVars, smVars, devVars, idbVars, migVars, selVars, lsVars,
                   simpleVars, createVars, storeVars, provVars, regVars, zServer, zInflight,
                   zSubscribed, zSets>>

NextServerState ==
    \/ \E update \in ServerUpdates, fresh \in BOOLEAN : ServerSetStart(update, fresh)
    \/ ServerSetResume
    \/ \E revalidate \in BOOLEAN, fresh \in BOOLEAN : ServerGetCall(revalidate, fresh)

\* the fields the updates q write, each with the value of the last that writes it
Written(q) == UNION {DOMAIN q[n] : n \in 1..Len(q)}

LastWritten(q, f) ==
    q[CHOOSE n \in 1..Len(q) :
          f \in DOMAIN q[n] /\ \A k \in (n + 1)..Len(q) : f \notin DOMAIN q[k]][f]

(***************************************************************************)
(* C37  Concurrent set calls both take effect: when a set call resolves,   *)
(* the stored state holds, for every field written by a set call that      *)
(* resolved while this one was under way or by this call, the value of the *)
(* last of them that wrote it; for two concurrent calls on disjoint fields *)
(* that is both fields' new values.                                        *)
(***************************************************************************)
C37_ConcurrentSetsBothApply ==
    zLast.op = "set" =>
        LET q == Append(zLast.during, zLast.update)
        IN \A f \in Written(q) : zServer.value[f] = LastWritten(q, f)

(***************************************************************************)
(* useOptimisticServerState (hooks/hooks.ts 51-119) over one ServerState.  *)
(* The continuations of the hook's promises run from one queue in the      *)
(* order in which they were queued.                                        *)
(***************************************************************************)
MaxUpdates == 2

\* useState<T | null>(null)
NoLocalState == [present |-> FALSE, value |-> ServerInitialState]

OptNoOp ==
    [op |-> "none", update |-> <<>>, prior |-> ServerInitialState, applied |-> FALSE,
     refreshed |-> FALSE]

\* the hook after its effect has run: the initial fetch is under way
OptimisticInit ==
    /\ oState = NoLocalState
    /\ oPending = <<>>
    /\ oInflight = <<>>
    /\ oQueue = <<[kind |-> "initial", value |-> ServerInitialState, id |-> 0,
                   update |-> <<>>, prior |-> ServerInitialState, applied |-> FALSE,
                   refreshed |-> FALSE]>>
    /\ oServer = ServerInitialState
    /\ oMounted = TRUE
    /\ oCount = 0
    /\ oLast = OptNoOp

OptimisticIdle ==
    /\ oState = NoLocalState
    /\ oPending = <<>>
    /\ oInflight = <<>>
    /\ oQueue = <<>>
    /\ oServer = ServerInitialState
    /\ oMounted = FALSE
    /\ oCount = 0
    /\ oLast = OptNoOp

\* pendingUpdates.current.reduce((state, update) => ({ ...state, ...update }), current)
RECURSIVE ReapplyPending(_, _)
ReapplyPending(pending, current) ==
    IF pending = <<>> THEN current
    ELSE ReapplyPending(Tail(pending), ServerSpread(current, Head(pending).update))

\* pendingUpdates.current.filter(u => u !== update)
RECURSIVE FilterPending(_, _)
FilterPending(pending, id) ==
    IF pending = <<>> THEN <<>>
    ELSE IF Head(pending).id = id THEN FilterPending(Tail(pending), id)
         ELSE <<Head(pending)>> \o FilterPending(Tail(pending), id)

\* a continuation that sets the state from the server marks what is still under way
MarkRefreshed(q) == [n \in 1..Len(q) |-> [q[n] EXCEPT !.refreshed = TRUE]]

\* updateState(update): the optimistic update, the push and the call of
\* serverState.set, which reads the current server state before it awaits
OptUpdateState(update) ==
    /\ oCount < MaxUpdates
    /\ oCount' = oCount + 1
    /\ oState' = IF oState.present
                 THEN [oState EXCEPT !.value = ServerSpread(oState.value, update)]
                 ELSE oState
    /\ oPending' = Append(oPending, [id |-> oCount + 1, update |-> update])
    /\ oInflight' = Append(oInflight, [id |-> oCount + 1, update |-> update,
                                       current |-> oServer, prior |-> oState.value,
                                       applied |-> oState.present, refreshed |-> FALSE])
    /\ oLast' = [OptNoOp EXCEPT !.op = "updateState", !.update = update]
    /\ UNCHANGED <<heap, mergeVars, retryVars, ssVars, smVars, devVars, idbVars, migVars, selVars,
                   lsVars, simpleVars, createVars, storeVars, provVars, regVars, oQueue,
                   oServer, oMounted>>

\* the oldest serverState.set resumes after its await, writes the next state
\* and calls the subscribers.  It rejects when a subscriber throws; the hook's
\* subscriber, if still subscribed, had been called before that one or not.
OptSetSettles(rejects, notified) ==
    /\ oInflight # <<>>
    /\ ~rejects => notified
    /\ LET call == Head(oInflight)
           next == ServerSpread(call.current, call.update)
           refresh == IF notified /\ oMounted
                      THEN <<[kind |-> "refresh", value |-> next, id |-> 0,
                              update |-> <<>>, prior |-> ServerInitialState,
                              applied |-> FALSE, refreshed |-> FALSE]>>
                      ELSE <<>>
           rollback == IF rejects
                       THEN <<[kind |-> "rollback", value |-> next, id |-> call.id,
                               update |-> call.update, prior |-> call.prior,
                               applied |-> call.applied, refreshed |-> call.refreshed]>>
                       ELSE <<>>
       IN /\ oServer' = next
          /\ oInflight' = Tail(oInflight)
          /\ oQueue' = oQueue \o refresh \o rollback
          /\ oLast' = [OptNoOp EXCEPT !.op = IF rejects THEN "setRejected" ELSE "setResolved",
                                      !.update = call.update]
    /\ UNCHANGED <<heap, mergeVars, retryVars, ssVars, smVars, devVars, idbVars, migVars, selVars,
                   lsVars, simpleVars, createVars, storeVars, provVars, regVars, oState,
                   oPending, oMounted, oCount>>

\* the oldest queued continuation runs: the then of the initial fetch (62-66),
\* the subscriber after its await (70-75) or the catch of updateState (97-113)
OptRun ==
    /\ oQueue # <<>>
    /\ LET job == Head(oQueue)
       IN /\ oLast' = [OptNoOp EXCEPT !.op = IF oMounted THEN job.kind ELSE "skipped",
                                      !.update = job.update, !.prior = job.prior,
                                      !.applied = job.applied,
                                      !.refreshed = job.refreshed]
          /\ IF ~oMounted
             THEN /\ oQueue' = Tail(oQueue)
                  /\ UNCHANGED <<oState, oPending, oInflight>>
             ELSE IF job.kind = "initial"
             THEN /\ oState' = [present |-> TRUE, value |-> job.value]
                  /\ oQueue' = MarkRefreshed(Tail(oQueue))
                  /\ oInflight' = MarkRefreshed(oInflight)
                  /\ UNCHANGED oPending
             ELSE IF job.kind = "refresh"
             THEN /\ oState' = [present |-> TRUE, value |-> job.value]
                  /\ oPending' = <<>>
                  /\ oQueue' = MarkRefreshed(Tail(oQueue))
                  /\ oInflight' = MarkRefreshed(oInflight)
             ELSE /\ oQueue' = Tail(oQueue)
                  /\ UNCHANGED oInflight
                  /\ IF oState.present
                     THEN /\ oPending' = FilterPending(oPending, job.id)
                          /\ oState' = [oState EXCEPT
                                 !.value = ReapplyPending(oPending', oState.value)]
                     ELSE UNCHANGED <<oState, oPending>>
    /\ UNCHANGED <<heap, mergeVars, retryVars, ssVars, smVars, devVars, idbVars, migVars, selVars,
                   lsVars, simpleVars, createVars, storeVars, provVars, regVars, oServer,
                   oMounted, oCount>>

\* the effect's cleanup: mounted.current = false; unsubscribe()
OptUnmount ==
    /\ oMounted
    /\ oMounted' = FALSE
    /\ oLast' = [OptNoOp EXCEPT !.op = "unmount"]
    /\ UNCHANGED <<heap, mergeVars, retryVars, ssVars, smVars, devVars, idbVars, migVars, selVars,
                   lsVars, simpleVars, createVars, storeVars, provVars, regVars, oState,
                   oPending, oInflight, oQueue, oServer, oCount>>

NextOptimistic ==
    \/ \E update \in ServerUpdates : OptUpdateState(update)
    \/ \E rejects \in BOOLEAN, notified \in BOOLEAN : OptSetSettles(rejects, notified)
    \/ OptRun
    \/ OptUnmount

PendingUpdatesOf(pending) == [n \in 1..Len(pending) |-> pending[n].update]

(***************************************************************************)
(* C38  Optimistic rollback: after the catch of a rejected set has run for *)
(* an update that was applied optimistically, with no refresh from the     *)
(* server in between, every field written by a still-pending update holds  *)
(* the value of the last of them that writes it, and every other field     *)
(* written by the failed update is back at the value it had before the     *)
(* update was applied.                                                     *)
(***************************************************************************)
C38_RollbackRestores ==
    (oLast.op = "rollback" /\ oLast.applied /\ ~oLast.refreshed) =>
        LET remaining == PendingUpdatesOf(oPending)
        IN \A f \in ServerFields :
              /\ f \in Written(remaining) => oState.value[f] = LastWritten(remaining, f)
              /\ (f \notin Written(remaining) /\ f \in DOMAIN oLast.update) =>
                     oState.value[f] = oLast.prior[f]

(***************************************************************************)
(* IndexedDBStorage.withRetry (unnamed/part_006 33-52) over an operation   *)
(* whose invocations resolve or reject with an Error, with a DOMException  *)
(* named AbortError or QuotaExceededError, or with a value that is not an  *)
(* Error.                                                                  *)
(***************************************************************************)
MaxAttempts == 4

\* config.retry?.attempts: not configured, or a number
RetryConfigs ==
    {[configured |-> FALSE, attempts |-> 0]}
        \cup {[configured |-> TRUE, attempts |-> n] : n \in 0..MaxAttempts}

\* what an invocation of the operation rejects with
ErrorNames == {"Error", "AbortError", "QuotaExceededError", "notAnError"}

\* this.config.retry?.attempts || 3
AttemptLimit(config) ==
    IF config.configured /\ config.attempts # 0 THEN config.attempts ELSE RetryAttempts

\* the condition of the catch block: another attempt is made
Retries(config, attempt, name) ==
    /\ attempt < AttemptLimit(config)
    /\ name # "notAnError"
    /\ name # "QuotaExceededError"

NoError == [name |-> "none", attempt |-> 0]

RetryInit ==
    /\ wConfig \in RetryConfigs
    /\ wAttempt = 0
    /\ wPhase = "idle"
    /\ wInvocations = 0
    /\ wErrors = <<>>
    /\ wResult = NoError

RetryIdle ==
    /\ wConfig = [configured |-> FALSE, attempts |-> 0]
    /\ wAttempt = 0
    /\ wPhase = "idle"
    /\ wInvocations = 0
    /\ wErrors = <<>>
    /\ wResult = NoError

\* withRetry(operation): attempt = 1 and the operation is invoked
WithRetryCall ==
    /\ wPhase = "idle"
    /\ wAttempt' = 1
    /\ wPhase' = "awaiting"
    /\ wInvocations' = wInvocations + 1
    /\ UNCHANGED <<heap, mergeVars, optVars, ssVars, smVars, devVars, idbVars, migVars,
                   selVars, lsVars, simpleVars, createVars, storeVars, provVars, regVars,
                   wConfig, wErrors, wResult>>

\* the invocation resolves: return await operation()
WithRetryResolves ==
    /\ wPhase = "awaiting"
    /\ wPhase' = "resolved"
    /\ UNCHANGED <<heap, mergeVars, optVars, ssVars, smVars, devVars, idbVars, migVars,
                   selVars, lsVars, simpleVars, createVars, storeVars, provVars, regVars,
                   wConfig, wAttempt, wInvocations, wErrors, wResult>>

\* the invocation rejects: the catch block waits for the delay or throws the error
WithRetryRejects(name) ==
    /\ wPhase = "awaiting"
    /\ LET error == [name |-> name, attempt |-> wAttempt]
       IN /\ wErrors' = Append(wErrors, error)
          /\ IF Retries(wConfig, wAttempt, name)
             THEN wPhase' = "delay" /\ wResult' = wResult
             ELSE wPhase' = "rejected" /\ wResult' = error
    /\ UNCHANGED <<heap, mergeVars, optVars, ssVars, smVars, devVars, idbVars, migVars,
                   selVars, lsVars, simpleVars, createVars, storeVars, provVars, regVars,
                   wConfig, wAttempt, wInvocations>>

\* the delay has passed: return this.withRetry(operation, attempt + 1)
WithRetryAgain ==
    /\ wPhase = "delay"
    /\ wAttempt' = wAttempt + 1
    /\ wPhase' = "awaiting"
    /\ wInvocations' = wInvocations + 1
    /\ UNCHANGED <<heap, mergeVars, optVars, ssVars, smVars, devVars, idbVars, migVars,
                   selVars, lsVars, simpleVars, createVars, storeVars, provVars, regVars,
                   wConfig, wErrors, wResult>>

NextRetry ==
    \/ WithRetryCall
    \/ WithRetryResolves
    \/ \E name \in ErrorNames : WithRetryRejects(name)
    \/ WithRetryAgain

\* the most invocations a configuration allows: retry.attempts when it is
\* configured, though never fewer than the one invocation of the call itself,
\* and 3 when it is not
AllowedInvocations(config) ==
    IF config.configured
    THEN (IF config.attempts < 1 THEN 1 ELSE config.attempts)
    ELSE RetryAttempts

(***************************************************************************)
(* C40  withRetry is bounded: the operation is invoked at most             *)
(* retry.attempts times (3 times when that is not configured), it is not   *)
(* invoked again after a QuotaExceededError, and when withRetry rejects it *)
(* rejects with the error of the last invocation.                          *)
(***************************************************************************)
C40_RetryBounded ==
    /\ wInvocations <= AllowedInvocations(wConfig)
    /\ \A n \in 1..Len(wErrors) :
          wErrors[n].name = "QuotaExceededError" => wInvocations = n
    /\ wPhase = "rejected" =>
          /\ wResult = wErrors[Len(wErrors)]
          /\ wResult.attempt = wInvocations

(***************************************************************************)
(* The specifications: one per implementation, the others idle.            *)
(***************************************************************************)
InitMerge ==
    /\ heap = <<>> /\ MergeInit
    /\ CreateIdle /\ StoreIdle /\ ProviderIdle /\ RegistryIdle /\ SimpleIdle /\ ListenerSetIdle /\ SelectorIdle /\ MigrationIdle /\ IdbIdle /\ DevToolsIdle /\ StorageManagerIdle /\ ServerStateIdle
    /\ OptimisticIdle /\ RetryIdle
NextMerge == ApplyMerge
SpecMerge == InitMerge /\ [][NextMerge]_vars

InitCreate ==
    /\ CreateInit
    /\ MergeIdle /\ StoreIdle /\ ProviderIdle /\ RegistryIdle /\ SimpleIdle /\ ListenerSetIdle /\ SelectorIdle /\ MigrationIdle /\ IdbIdle /\ DevToolsIdle /\ StorageManagerIdle /\ ServerStateIdle
    /\ OptimisticIdle /\ RetryIdle
SpecCreate == InitCreate /\ [][NextCreate]_vars

InitStore ==
    /\ heap = <<>> /\ StoreInit
    /\ MergeIdle /\ CreateIdle /\ ProviderIdle /\ RegistryIdle /\ SimpleIdle /\ ListenerSetIdle /\ SelectorIdle /\ MigrationIdle /\ IdbIdle /\ DevToolsIdle /\ StorageManagerIdle /\ ServerStateIdle
    /\ OptimisticIdle /\ RetryIdle
SpecStore == InitStore /\ [][NextStore]_vars

InitProvider ==
    /\ heap = <<>> /\ ProviderInit
    /\ MergeIdle /\ CreateIdle /\ StoreIdle /\ RegistryIdle /\ SimpleIdle /\ ListenerSetIdle /\ SelectorIdle /\ MigrationIdle /\ IdbIdle /\ DevToolsIdle /\ StorageManagerIdle /\ ServerStateIdle
    /\ OptimisticIdle /\ RetryIdle
SpecProvider == InitProvider /\ [][NextProvider]_vars

InitRegistry ==
    /\ heap = <<>> /\ RegistryInit
    /\ MergeIdle /\ CreateIdle /\ StoreIdle /\ ProviderIdle /\ SimpleIdle /\ ListenerSetIdle /\ SelectorIdle /\ MigrationIdle /\ IdbIdle /\ DevToolsIdle /\ StorageManagerIdle /\ ServerStateIdle
    /\ OptimisticIdle /\ RetryIdle
SpecRegistry == InitRegistry /\ [][NextRegistry]_vars

InitSimple ==
    /\ heap = <<>> /\ SimpleInit
    /\ MergeIdle /\ CreateIdle /\ StoreIdle /\ ProviderIdle /\ RegistryIdle /\ ListenerSetIdle /\ SelectorIdle /\ MigrationIdle /\ IdbIdle /\ DevToolsIdle /\ StorageManagerIdle /\ ServerStateIdle
    /\ OptimisticIdle /\ RetryIdle
SpecSimple == InitSimple /\ [][NextSimple]_vars

InitListenerSet ==
    /\ heap = <<>> /\ ListenerSetInit
    /\ MergeIdle /\ CreateIdle /\ StoreIdle /\ ProviderIdle /\ RegistryIdle /\ SimpleIdle
    /\ SelectorIdle /\ MigrationIdle /\ IdbIdle /\ DevToolsIdle /\ StorageManagerIdle /\ ServerStateIdle
    /\ OptimisticIdle /\ RetryIdle
SpecListenerSet == InitListenerSet /\ [][NextListenerSet]_vars

InitSelector ==
    /\ SelectorInit
    /\ MergeIdle /\ CreateIdle /\ StoreIdle /\ ProviderIdle /\ RegistryIdle /\ SimpleIdle
    /\ ListenerSetIdle /\ MigrationIdle /\ IdbIdle /\ DevToolsIdle /\ StorageManagerIdle /\ ServerStateIdle
    /\ OptimisticIdle /\ RetryIdle
SpecSelector == InitSelector /\ [][NextSelector]_vars

InitMigration ==
    /\ heap = <<>> /\ MigrationInit
    /\ MergeIdle /\ CreateIdle /\ StoreIdle /\ ProviderIdle /\ RegistryIdle /\ SimpleIdle
    /\ ListenerSetIdle /\ SelectorIdle /\ IdbIdle /\ DevToolsIdle /\ StorageManagerIdle /\ ServerStateIdle
    /\ OptimisticIdle /\ RetryIdle
SpecMigration == InitMigration /\ [][NextMigration]_vars

InitIdb ==
    /\ heap = <<>> /\ IdbInit
    /\ MergeIdle /\ CreateIdle /\ StoreIdle /\ ProviderIdle /\ RegistryIdle /\ SimpleIdle
    /\ ListenerSetIdle /\ SelectorIdle /\ MigrationIdle /\ DevToolsIdle /\ StorageManagerIdle /\ ServerStateIdle
    /\ OptimisticIdle /\ RetryIdle
SpecIdb == InitIdb /\ [][NextIdb]_vars

InitDevTools ==
    /\ heap = <<>> /\ DevToolsInit
    /\ MergeIdle /\ CreateIdle /\ StoreIdle /\ ProviderIdle /\ RegistryIdle /\ SimpleIdle
    /\ ListenerSetIdle /\ SelectorIdle /\ MigrationIdle /\ IdbIdle /\ StorageManagerIdle /\ ServerStateIdle
    /\ OptimisticIdle /\ RetryIdle
SpecDevTools == InitDevTools /\ [][NextDevTools]_vars

InitStorageManager ==
    /\ heap = <<>> /\ StorageManagerInit
    /\ MergeIdle /\ CreateIdle /\ StoreIdle /\ ProviderIdle /\ RegistryIdle /\ SimpleIdle
    /\ ListenerSetIdle /\ SelectorIdle /\ MigrationIdle /\ IdbIdle /\ DevToolsIdle
    /\ ServerStateIdle
    /\ OptimisticIdle /\ RetryIdle
SpecStorageManager == InitStorageManager /\ [][NextStorageManager]_vars

InitServerState ==
    /\ heap = <<>> /\ ServerStateInit
    /\ MergeIdle /\ CreateIdle /\ StoreIdle /\ ProviderIdle /\ RegistryIdle /\ SimpleIdle
    /\ ListenerSetIdle /\ SelectorIdle /\ MigrationIdle /\ IdbIdle /\ DevToolsIdle
    /\ StorageManagerIdle /\ OptimisticIdle /\ RetryIdle
SpecServerState == InitServerState /\ [][NextServerState]_vars

InitOptimistic ==
    /\ heap = <<>> /\ OptimisticInit
    /\ MergeIdle /\ CreateIdle /\ StoreIdle /\ ProviderIdle /\ RegistryIdle /\ SimpleIdle
    /\ ListenerSetIdle /\ SelectorIdle /\ MigrationIdle /\ IdbIdle /\ DevToolsIdle
    /\ StorageManagerIdle /\ ServerStateIdle /\ RetryIdle
SpecOptimistic == InitOptimistic /\ [][NextOptimistic]_vars

InitRetry ==
    /\ heap = <<>> /\ RetryInit
    /\ MergeIdle /\ CreateIdle /\ StoreIdle /\ ProviderIdle /\ RegistryIdle /\ SimpleIdle
    /\ ListenerSetIdle /\ SelectorIdle /\ MigrationIdle /\ IdbIdle /\ DevToolsIdle
    /\ StorageManagerIdle /\ ServerStateIdle /\ OptimisticIdle
SpecRetry == InitRetry /\ [][NextRetry]_vars
====
